---- MODULE Spec2Model ----
(***************************************************************************)
(* Alert-to-ticket pipeline of hookwise: the Celery retry wrapper          *)
(* (process_webhook_task), the orchestrator (handle_webhook_logic), the    *)
(* ticket cache kept in Redis and the ConnectWise gateway.                 *)
(*                                                                         *)
(* The orchestrator is cut at its blocking calls (cache get/set/delete,    *)
(* gateway calls, record-store commits), so that two workers interleave    *)
(* exactly where the code can be preempted.                                *)
(*                                                                         *)
(* tasks.py reads config.close_status, config.summary_remove_strings and   *)
(* config.global_routing_enabled and calls                                 *)
(* find_open_ticket(summary, close_status=...); models.py and client.py    *)
(* under src/ declare neither the columns nor the keyword.  The model      *)
(* follows the caller (tasks.py): the columns exist and the gateway        *)
(* accepts the keyword.                                                    *)
(***************************************************************************)
EXTENDS Integers, Sequences, FiniteSets, TLC

\* ------------------------------------------------------------------ bounds
MaxRequests == 3        \* request ids that may be enqueued
MaxFaults == 1          \* collaborator failures in a run with several requests
MaxRedeliveries == 1    \* duplicate deliveries / worker kills in a run
MaxEnv == 1             \* external closes and TTL expiries in a run
MaxTickets == 3         \* ticket ids the ticketing system hands out
MaxNow == 1             \* instants the clock runs through

\* ------------------------------------------------------- program constants
max_retries == 5

RequestIds == 1..MaxRequests
Workers == {"w1", "w2"}
TicketIds == 1..MaxTickets
Terminal == {"processed", "skipped", "dlq"}

\* random.uniform(0.8, 1.2), in tenths: both ends and the middle
JitterTenths == {8, 10, 12}

RECURSIVE Pow2(_)
Pow2(n) == IF n = 0 THEN 1 ELSE 2 * Pow2(n - 1)

\* the countdown growing by one unit per retry
LinearCountdown(retries, jitter) == (retries + 1) * jitter

\* countdown = (2**self.request.retries) * jitter, in tenths of a second
Countdown(retries, jitter) == Pow2(retries) * jitter

\* ------------------------------------------------------------------ strings
\* Strings that are searched or compared character by character are tuples
\* of one-character strings.
Lower(c) ==
    CASE c = "C" -> "c" [] c = "R" -> "r" [] c = "I" -> "i" [] c = "T" -> "t"
      [] c = "N" -> "n" [] c = "A" -> "a" [] c = "P" -> "p" [] c = "K" -> "k"
      [] c = "E" -> "e" [] c = "Y" -> "y" [] OTHER -> c

LowerStr(s) == [i \in 1..Len(s) |-> Lower(s[i])]

\* re.search(regex, val, re.IGNORECASE) for a regex without metacharacters:
\* a case-insensitive substring search
ReSearch(regex, val) ==
    \E i \in 0..(Len(val) - Len(regex)) :
        \A j \in 1..Len(regex) : Lower(val[i + j]) = Lower(regex[j])

\* re.search compiles the pattern first and raises re.error on one it cannot
\* compile: a character set that is opened and never closed
ReError(regex) ==
    \E i \in DOMAIN regex :
        regex[i] = "[" /\ \A j \in (i + 1)..Len(regex) : regex[j] # "]"

\* str(None)
NoneStr == <<"N", "o", "n", "e">>

\* resolve_jsonpath(data, path) followed by str(): the payload is a flat
\* record, a missing path resolves to None
ResolveStr(data, path) == IF path \in DOMAIN data THEN data[path] ELSE NoneStr

\* ------------------------------------------------------------ configuration
\* str.split(",") followed by strip() and the filter "if v.strip()"
RECURSIVE SplitComma(_, _, _)
SplitComma(s, i, cur) ==
    IF i > Len(s) THEN <<cur>>
    ELSE IF s[i] = "," THEN <<cur>> \o SplitComma(s, i + 1, <<>>)
    ELSE SplitComma(s, i + 1, Append(cur, s[i]))

RECURSIVE LStrip(_)
LStrip(s) == IF Len(s) > 0 /\ Head(s) = " " THEN LStrip(Tail(s)) ELSE s

RECURSIVE RStrip(_)
RStrip(s) ==
    IF Len(s) > 0 /\ s[Len(s)] = " " THEN RStrip(SubSeq(s, 1, Len(s) - 1)) ELSE s

Strip(s) == RStrip(LStrip(s))

\* the list without the strip() of its entries
TriggersUntrimmed(value) ==
    LET parts == SplitComma(value, 1, <<>>)
    IN  {parts[i] : i \in {j \in 1..Len(parts) : Strip(parts[j]) # <<>>}}

\* [v.strip() for v in value.split(",") if v.strip()]
Triggers(value) ==
    LET parts == SplitComma(value, 1, <<>>)
    IN  {Strip(parts[i]) : i \in {j \in 1..Len(parts) : Strip(parts[j]) # <<>>}}

\* the classification with the open and the close values exchanged
AlertTypeSwapped(actual_val, open_value, close_value) ==
    IF actual_val \in Triggers(close_value) THEN "DOWN"
    ELSE IF actual_val \in Triggers(open_value) THEN "UP"
    ELSE "GENERIC"

\* "config.open_value or "0"": the default stands in for an empty value
Or(value, default) == IF value = <<>> THEN default ELSE value

\* DOWN / UP / GENERIC from the stringified trigger value
AlertType(actual_val, open_value, close_value) ==
    IF actual_val \in Triggers(open_value) THEN "DOWN"
    ELSE IF actual_val \in Triggers(close_value) THEN "UP"
    ELSE "GENERIC"

\* ------------------------------------------------------------ field mapping
\* token_re.findall(mapping_val): the maximal runs of non-blank characters
RECURSIVE Tokens(_, _, _)
Tokens(s, i, cur) ==
    IF i > Len(s) THEN (IF cur = <<>> THEN <<>> ELSE <<cur>>)
    ELSE IF s[i] = " " THEN
        (IF cur = <<>> THEN <<>> ELSE <<cur>>) \o Tokens(s, i + 1, <<>>)
    ELSE Tokens(s, i + 1, Append(cur, s[i]))

\* sep.join(parts)
RECURSIVE Join(_, _)
Join(parts, sep) ==
    IF Len(parts) = 0 THEN <<>>
    ELSE IF Len(parts) = 1 THEN Head(parts)
    ELSE Head(parts) \o sep \o Join(Tail(parts), sep)

\* tok.startswith("$")
IsVariable(tok) == Head(tok) = "$"

\* "r_val is not None and str(r_val).strip()": the payload maps the paths it
\* holds to their values
ResolvesTo(data, tok) == IF tok \in DOMAIN data THEN Strip(data[tok]) ELSE <<>>

\* a literal kept only when the token next to it is a variable that resolved
LiteralKeptIfAdjacent(tokens, data, i) ==
    \E j \in {i - 1, i + 1} \cap DOMAIN tokens :
        IsVariable(tokens[j]) /\ ResolvesTo(data, tokens[j]) # <<>>

\* left_ok or right_ok: some variable before or after the literal resolved
LiteralKept(tokens, data, i) ==
    \E j \in DOMAIN tokens \ {i} :
        IsVariable(tokens[j]) /\ ResolvesTo(data, tokens[j]) # <<>>

\* output_parts, from token i on
RECURSIVE OutputParts(_, _, _)
OutputParts(tokens, data, i) ==
    IF i > Len(tokens) THEN <<>>
    ELSE (IF IsVariable(tokens[i]) THEN
              (IF ResolvesTo(data, tokens[i]) # <<>>
               THEN <<ResolvesTo(data, tokens[i])>> ELSE <<>>)
          ELSE IF LiteralKept(tokens, data, i) THEN <<tokens[i]>>
          ELSE <<>>)
         \o OutputParts(tokens, data, i + 1)

\* mapped_vals[field] for a mapping value that holds a blank: set only when a
\* variable resolved
MapTemplate(mapping_val, data) ==
    LET tokens == Tokens(mapping_val, 1, <<>>)
        any_jsonpath_resolved ==
            \E i \in DOMAIN tokens :
                IsVariable(tokens[i]) /\ ResolvesTo(data, tokens[i]) # <<>>
        output_parts == OutputParts(tokens, data, 1)
    IN  IF any_jsonpath_resolved /\ output_parts # <<>>
        THEN [set |-> TRUE, val |-> Join(output_parts, <<" ">>)]
        ELSE [set |-> FALSE, val |-> <<>>]

\* ------------------------------------------------------------------ masking
\* A JSON value: a scalar (its text in v), a dict (items: the key k and the
\* value v of each entry, in order) or a list (items: the values, without key).
Scalar(text) == [t |-> "str", v |-> text, items |-> <<>>]
Item(k, value) == [k |-> k, v |-> value]
Dict(items) == [t |-> "dict", v |-> "", items |-> items]
List(values) == [t |-> "list", v |-> "", items |-> [i \in DOMAIN values |-> Item(<<>>, values[i])]]
None == [t |-> "none", v |-> "", items |-> <<>>]

sensitive_keys ==
    {<<"p", "a", "s", "s", "w", "o", "r", "d">>, <<"s", "e", "c", "r", "e", "t">>,
     <<"t", "o", "k", "e", "n">>, <<"k", "e", "y">>, <<"a", "u", "t", "h">>,
     <<"a", "u", "t", "h", "o", "r", "i", "z", "a", "t", "i", "o", "n">>,
     <<"b", "e", "a", "r", "e", "r">>}

\* a key is sensitive only when it is one of the words
IsSensitiveExact(k) == LowerStr(k) \in sensitive_keys

\* any(sk in k.lower() for sk in sensitive_keys)
IsSensitive(k) ==
    \E sk \in sensitive_keys :
        \E i \in 0..(Len(k) - Len(sk)) :
            \A j \in 1..Len(sk) : LowerStr(k)[i + j] = sk[j]

RECURSIVE mask_secrets(_)
mask_secrets(data) ==
    IF data.t \notin {"dict", "list"} THEN data
    ELSE IF data.t = "list" THEN
        [data EXCEPT !.items =
            [i \in DOMAIN data.items |-> Item(<<>>, mask_secrets(data.items[i].v))]]
    ELSE
        [data EXCEPT !.items =
            [i \in DOMAIN data.items |->
                LET k == data.items[i].k
                    v == data.items[i].v
                IN  Item(k, IF IsSensitive(k) THEN Scalar("***")
                            ELSE IF v.t \in {"dict", "list"} THEN mask_secrets(v)
                            ELSE v)]]

\* payload=json.dumps(mask_secrets(data)),
\* headers=json.dumps(mask_secrets(headers)) if headers else None
Snapshot(data, headers) ==
    [payload |-> mask_secrets(data),
     headers |-> IF headers.items # <<>> THEN mask_secrets(headers) ELSE None]

\* Instants are seconds since the epoch; "start" and "end" of a window are
\* strings: an ISO-8601 instant, a wall-clock time "HH:MM", a string neither
\* parser reads, or nothing (the key is missing or empty).
Iso(t) == [kind |-> "iso", at |-> t]
HHMM(h, m) == [kind |-> "hhmm", h |-> h, m |-> m]
Garbled == [kind |-> "bad"]
Missing == [kind |-> "none"]

Window(type, start, end, days) ==
    [type |-> type, start |-> start, end |-> end, days |-> days]

Day == 24 * 60 * 60

\* an instant of the model: day of the epoch, hour, minute, second
At(day, h, m, sec) == day * Day + (h * 60 + m) * 60 + sec

\* now.time()
TimeOfDay(t) == t % Day

\* now.strftime("%a"); the epoch began on a Thursday
Weekday(t) == <<"Thu", "Fri", "Sat", "Sun", "Mon", "Tue", "Wed">>[((t \div Day) % 7) + 1]

\* s_h, s_m = map(int, start_str.split(":")) and now.replace(hour=s_h,
\* minute=s_m, ...) succeed
ReadsAsTime(x) == x.kind = "hhmm" /\ x.h \in 0..23 /\ x.m \in 0..59

\* now.replace(hour=h, minute=m, second=0, microsecond=0).time()
TimeAt(x) == (x.h * 60 + x.m) * 60

\* the windows the loop passes over with "continue": start or end missing, a
\* weekly window on a day it does not list
WindowPassed(window, now) ==
    \/ window.start.kind = "none" \/ window.end.kind = "none"
    \/ window.type = "weekly" /\ Weekday(now) \notin window.days

\* the loop body raises on this window: a string its parser does not read
WindowRaises(window, now) ==
    /\ ~WindowPassed(window, now)
    /\ \/ window.type = "once" /\ (window.start.kind # "iso" \/ window.end.kind # "iso")
       \/ window.type \in {"daily", "weekly"}
            /\ ~(ReadsAsTime(window.start) /\ ReadsAsTime(window.end))

\* the loop body returns True on this window
WindowActive(window, now) ==
    /\ ~WindowPassed(window, now)
    /\ ~WindowRaises(window, now)
    /\ IF window.type = "once" THEN
           window.start.at <= now /\ now <= window.end.at
       ELSE IF window.type \in {"daily", "weekly"} THEN
           LET start_time == TimeAt(window.start)
               end_time == TimeAt(window.end)
               now_time == TimeOfDay(now)
           IN  IF start_time < end_time
               THEN start_time <= now_time /\ now_time <= end_time
               ELSE now_time >= start_time \/ now_time <= end_time
       ELSE FALSE

\* is_in_maintenance(config): the first active window answers True; the whole
\* loop runs in one try block, an exception in it answers False
RECURSIVE IsInMaintenanceFrom(_, _, _)
IsInMaintenanceFrom(windows, i, now) ==
    IF i > Len(windows) THEN FALSE
    ELSE IF WindowRaises(windows[i], now) THEN FALSE
    ELSE IF WindowActive(windows[i], now) THEN TRUE
    ELSE IsInMaintenanceFrom(windows, i + 1, now)

is_in_maintenance(config, now) ==
    IF Len(config.maintenance_windows) = 0 THEN FALSE
    ELSE IsInMaintenanceFrom(config.maintenance_windows, 1, now)

\* a loop that stops at the first rule that matches
RuleLoopFirstMatch(rules, data, i, evaluated, matched, fields) ==
    LET hits == {j \in i..Len(rules) : ReSearch(rules[j].regex, ResolveStr(data, rules[j].path))}
    IN  IF hits = {} THEN
            [drop |-> 0, evaluated |-> evaluated \cup (i..Len(rules)), matched |-> matched,
             fields |-> fields, raised |-> FALSE]
        ELSE
            LET j == CHOOSE h \in hits : \A g \in hits : h <= g
            IN  [drop |-> IF "drop" \in DOMAIN rules[j].overrides THEN j ELSE 0,
                 evaluated |-> evaluated \cup (i..j), matched |-> j,
                 fields |-> [f \in DOMAIN fields |->
                                IF f \in DOMAIN rules[j].overrides
                                THEN rules[j].overrides[f] ELSE fields[f]],
                 raised |-> FALSE]

\* the loop without the early return of a rule with drop
RECURSIVE RuleLoopNoDrop(_, _, _, _, _, _)
RuleLoopNoDrop(rules, data, i, evaluated, matched, fields) ==
    IF i > Len(rules) THEN
        [drop |-> 0, evaluated |-> evaluated, matched |-> matched, fields |-> fields,
         raised |-> FALSE]
    ELSE
        LET rule == rules[i]
            val == ResolveStr(data, rule.path)
        IN  IF ReSearch(rule.regex, val) THEN
                RuleLoopNoDrop(rules, data, i + 1, evaluated \cup {i}, i,
                    [f \in DOMAIN fields |->
                        IF f \in DOMAIN rule.overrides THEN rule.overrides[f]
                        ELSE fields[f]])
            ELSE RuleLoopNoDrop(rules, data, i + 1, evaluated \cup {i}, matched, fields)

\* The routing-rule loop.  It returns the index of the drop rule that ended
\* it (0 if none did), the rules it evaluated, the last rule that matched
\* and the overrides in force.
RECURSIVE RuleLoop(_, _, _, _, _, _)
RuleLoop(rules, data, i, evaluated, matched, fields) ==
    IF i > Len(rules) THEN
        [drop |-> 0, evaluated |-> evaluated, matched |-> matched, fields |-> fields,
         raised |-> FALSE]
    ELSE
        LET rule == rules[i]
            val == ResolveStr(data, rule.path)
        IN  IF ReError(rule.regex) THEN
                [drop |-> 0, evaluated |-> evaluated \cup {i}, matched |-> matched,
                 fields |-> fields, raised |-> TRUE]
            ELSE IF ReSearch(rule.regex, val) THEN
                IF "drop" \in DOMAIN rule.overrides /\ rule.overrides["drop"] THEN
                    [drop |-> i, evaluated |-> evaluated \cup {i}, matched |-> i,
                     fields |-> fields, raised |-> FALSE]
                ELSE
                    RuleLoop(rules, data, i + 1, evaluated \cup {i}, i,
                        [f \in DOMAIN fields |->
                            IF f \in DOMAIN rule.overrides THEN rule.overrides[f]
                            ELSE fields[f]])
            ELSE RuleLoop(rules, data, i + 1, evaluated \cup {i}, matched, fields)

RuleFields == {"board", "status", "ticket_type", "subtype", "item", "priority"}

ApplyRoutingRules(config, data) ==
    RuleLoop(config.routing_rules, data, 1, {}, 0, [f \in RuleFields |-> config[f]])

\* ------------------------------------------------- company and ticket fields
\* \w+ at position i of s: the longest run of word characters, the
\* characters the model writes that are none being the ones listed
RECURSIVE WordRun(_, _)
WordRun(s, i) ==
    IF i <= Len(s) /\ s[i] \notin {" ", "#", "-", "*", "?", ",", "$", ":"}
    THEN <<s[i]>> \o WordRun(s, i + 1)
    ELSE <<>>

\* a search that finds no company tag
NoCompanyIdMatch(s, i) == <<>>

\* re.search(r"#CW-?(\w+)", monitor_name).group(1), from position i on; the
\* empty string when there is no match
RECURSIVE CompanyIdMatch(_, _)
CompanyIdMatch(s, i) ==
    IF i + 3 > Len(s) THEN <<>>
    ELSE LET tag == s[i] = "#" /\ s[i + 1] = "C" /\ s[i + 2] = "W"
             id == WordRun(s, IF s[i + 3] = "-" THEN i + 4 ELSE i + 3)
         IN  IF tag /\ id # <<>> THEN id ELSE CompanyIdMatch(s, i + 1)

\* fnmatch.fnmatch(name, pattern) with the wildcards * and ?
RECURSIVE fnmatch(_, _)
fnmatch(name, pattern) ==
    IF pattern = <<>> THEN name = <<>>
    ELSE IF Head(pattern) = "*" THEN
        fnmatch(name, Tail(pattern)) \/ (name # <<>> /\ fnmatch(Tail(name), pattern))
    ELSE /\ name # <<>>
         /\ Head(pattern) = "?" \/ Head(pattern) = Head(name)
         /\ fnmatch(Tail(name), Tail(pattern))

\* the first row a query returns: the least index that satisfies it, 0 if none
First(S) == IF S = {} THEN 0 ELSE CHOOSE i \in S : \A j \in S : i <= j

\* an exact lookup that finds no row
NoExactMatch(mappings, tenant_val) == 0

\* GlobalMapping.query.filter_by(tenant_value=tenant_val).first()
ExactMatch(mappings, tenant_val) ==
    First({i \in DOMAIN mappings : mappings[i].tenant_value = tenant_val})

\* the first row with a wildcard in its tenant_value that fnmatch accepts
WildcardMatch(mappings, tenant_val) ==
    First({i \in DOMAIN mappings :
            /\ \E k \in DOMAIN mappings[i].tenant_value :
                    mappings[i].tenant_value[k] \in {"*", "?"}
            /\ fnmatch(tenant_val, mappings[i].tenant_value)})

\* a resolution that takes whatever the LLM answers but the sentinel
ResolveTenantTrusting(tenant_val, mappings, companies, llm_resp) ==
    LET exact == ExactMatch(mappings, tenant_val)
        wildcard == IF exact = 0 THEN WildcardMatch(mappings, tenant_val) ELSE 0
        mapping == IF exact # 0 THEN exact ELSE wildcard
        asked == mapping = 0 /\ companies # <<>>
        accepted == asked /\ llm_resp # <<>> /\ Strip(llm_resp) # <<"N", "O", "N", "E">>
    IN  [company_id |-> IF accepted THEN Strip(llm_resp)
                        ELSE IF mapping # 0 THEN mappings[mapping].company_id
                        ELSE <<>>,
         calls |-> <<"exact">>
                   \o (IF exact = 0 THEN <<"wildcard">> ELSE <<>>)
                   \o (IF mapping = 0 THEN <<"get_companies">> ELSE <<>>)
                   \o (IF asked THEN <<"call_llm">> ELSE <<>>)]

\* "3. Apply Global Mapping": exact match, wildcard match, LLM; the company
\* id it yields (empty: none) and the collaborators it called, in order
ResolveTenant(tenant_val, mappings, companies, llm_resp) ==
    LET exact == ExactMatch(mappings, tenant_val)
        wildcard == IF exact = 0 THEN WildcardMatch(mappings, tenant_val) ELSE 0
        mapping == IF exact # 0 THEN exact ELSE wildcard
        asked == mapping = 0 /\ companies # <<>>
        accepted ==
            /\ asked /\ llm_resp # <<>>
            /\ Strip(llm_resp) # <<"N", "O", "N", "E">>
            /\ \E k \in DOMAIN companies : companies[k] = Strip(llm_resp)
    IN  [company_id |-> IF accepted THEN Strip(llm_resp)
                        ELSE IF mapping # 0 THEN mappings[mapping].company_id
                        ELSE <<>>,
         calls |-> <<"exact">>
                   \o (IF exact = 0 THEN <<"wildcard">> ELSE <<>>)
                   \o (IF mapping = 0 THEN <<"get_companies">> ELSE <<>>)
                   \o (IF asked THEN <<"call_llm">> ELSE <<>>)]

\* a resolution that does not look at the toggle of the config
TenantRoutingAlways(config, company_id) == company_id = <<>>

\* "if not company_id and config.global_routing_enabled"
TenantRoutingApplies(config, company_id) ==
    company_id = <<>> /\ config.global_routing_enabled

\* mapped_vals.get(field)
Get(mapped_vals, field) ==
    IF field \in DOMAIN mapped_vals THEN mapped_vals[field] ELSE <<>>

\* "if len(ticket_summary) > 99"
SummaryLimit == 99

\* str.replace(old, ""): the occurrences of old are removed from left to right
RECURSIVE Remove(_, _)
Remove(text, old) ==
    LET found == {i \in 1..(Len(text) - Len(old) + 1) :
                    SubSeq(text, i, i + Len(old) - 1) = old}
    IN  IF old = <<>> \/ found = {} THEN text
        ELSE LET first == CHOOSE i \in found : \A j \in found : i <= j
             IN  SubSeq(text, 1, first - 1)
                    \o Remove(SubSeq(text, first + Len(old), Len(text)), old)

\* for s in config.summary_remove_strings.split(","): replace(s, "")
RECURSIVE RemoveEach(_, _, _)
RemoveEach(text, olds, i) ==
    IF i > Len(olds) THEN text ELSE RemoveEach(Remove(text, olds[i]), olds, i + 1)

\* a cut that appends the dots to the first 99 characters
EllipsizeAppending(text) ==
    IF Len(text) > SummaryLimit
    THEN SubSeq(text, 1, SummaryLimit) \o <<".", ".", ".">>
    ELSE text

\* ticket_summary[:96] + "..."
Ellipsize(text) ==
    IF Len(text) > SummaryLimit
    THEN SubSeq(text, 1, SummaryLimit - 3) \o <<".", ".", ".">>
    ELSE text

\* The final ticket summary, with the summary it is cut from: prefix and
\* mapped summary or display name, the configured substrings removed.
TicketSummary(prefix, mapped_summary, monitor_name, summary_remove_strings) ==
    LET subject == IF mapped_summary # <<>> THEN mapped_summary ELSE monitor_name
        whole == IF prefix # <<>> THEN prefix \o <<" ">> \o subject ELSE subject
        removed == IF summary_remove_strings # <<>>
                   THEN RemoveEach(whole, SplitComma(summary_remove_strings, 1, <<>>), 1)
                   ELSE whole
    IN  [removed |-> removed, ticket_summary |-> Ellipsize(removed)]

\* The keyword arguments of cw_client.create_ticket and the collaborators the
\* tenant resolution called: static fields, overridden by the mapped values,
\* overridden by the routing rules; the company from the customer_id
\* mapping, the #CW tag, the tenant resolution, the default.
CreateTicketArgs(config, data, mapped_vals, env) ==
    LET routed == RuleLoop(config.routing_rules, data, 1, {}, 0,
                    [f \in RuleFields |->
                        IF f \in DOMAIN mapped_vals THEN mapped_vals[f] ELSE config[f]])
        tagged == IF Get(mapped_vals, "customer_id") # <<>>
                  THEN Get(mapped_vals, "customer_id")
                  ELSE CompanyIdMatch(data.monitor_name, 1)
        tenant == IF TenantRoutingApplies(config, tagged) /\ data.tenant # <<>>
                  THEN ResolveTenant(data.tenant, env.mappings, env.companies,
                                     env.llm_resp)
                  ELSE [company_id |-> <<>>, calls |-> <<>>]
    IN  [summary |-> TicketSummary(config.ticket_prefix, Get(mapped_vals, "summary"),
                                   data.monitor_name, <<>>).ticket_summary,
         description |-> IF Get(mapped_vals, "description") # <<>>
                         THEN Get(mapped_vals, "description")
                         ELSE config.description_template,
         company_id |-> IF tagged # <<>> THEN tagged
                        ELSE IF tenant.company_id # <<>> THEN tenant.company_id
                        ELSE config.customer_id_default,
         board |-> routed.fields.board, status |-> routed.fields.status,
         ticket_type |-> routed.fields.ticket_type, subtype |-> routed.fields.subtype,
         item |-> routed.fields.item, priority |-> routed.fields.priority,
         severity |-> Get(mapped_vals, "severity"),
         impact |-> Get(mapped_vals, "impact"),
         calls |-> tenant.calls]

\* The endpoint configuration every request of the model is sent to.
Config ==
    [trigger_field |-> "status",
     open_value |-> <<"0", ",", " ", "2">>,
     close_value |-> <<"1">>,
     board |-> "Board", status |-> "New", ticket_type |-> "", subtype |-> "",
     item |-> "", priority |-> "P3", close_status |-> "Resolved",
     routing_rules |->
        << [path |-> "sev", regex |-> <<"c", "r", "i", "t">>,
            overrides |-> [board |-> "Critical"]],
           [path |-> "sev", regex |-> <<"c", "r", "i">>,
            overrides |-> [drop |-> TRUE]],
           [path |-> "sev", regex |-> <<"i">>,
            overrides |-> [priority |-> "P1"]] >>,
     maintenance_windows |->
        << Window("once", Iso(1), Iso(1), {}),
           \* an entry without type that carries wall-clock times
           Window("once", HHMM(9, 0), HHMM(17, 0), {}),
           Window("once", Iso(0), Iso(0), {}) >>]

\* The rules of the configuration followed by one the operator saved with a
\* regex that does not compile (the form stores the text as it is).
UnvalidatedRules ==
    Config.routing_rules \o
        << [path |-> "sev", regex |-> <<"[", "a">>, overrides |-> [board |-> "Ops"]] >>

\* Payloads: the trigger value and the field the routing rules look at.
Info == <<"i", "n", "f", "o">>
Crit == <<"C", "R", "I", "T">>

\* The units of work the ingestion side enqueues: a payload and the kind of
\* request id ("replay": an id with the replay_/test_ prefix).
DownUnit == [payload |-> [status |-> <<"0">>, sev |-> Info], kind |-> "normal"]
UpUnit == [payload |-> [status |-> <<"1">>, sev |-> Info], kind |-> "normal"]
GenericUnit == [payload |-> [status |-> <<"5">>, sev |-> Info], kind |-> "normal"]
DropUnit == [payload |-> [status |-> <<"0">>, sev |-> Crit], kind |-> "normal"]
ReplayUnit == [payload |-> [status |-> <<"0">>, sev |-> Info], kind |-> "replay"]
TestUnit == [payload |-> [status |-> <<"0">>, sev |-> Info], kind |-> "test"]
Units == {DownUnit, UpUnit, GenericUnit, DropUnit, ReplayUnit, TestUnit}

\* -------------------------------------------------------------------- state
VARIABLES
    limits,     \* the deployment of the run: requests, faults, redeliveries, workers
    now,        \* the clock
    req,        \* request id -> the unit of work enqueued under it (payload, kind)
    queue,      \* messages in the Celery queue
    task,       \* worker -> the attempt it executes (position and locals)
    rec,        \* request id -> its WebhookLog row
    cache,      \* cache key -> ticket id (0: no entry)
    viable,     \* cache key -> the companion ":viable" flag
    tickets,    \* ticket id -> its state in the ticketing system
    nextTicket, \* the id the ticketing system hands out next
    log,        \* request id -> gateway calls made for it, rules evaluated for it
    hist,       \* history of the run (faults injected, order of the attempts, ...)
    dup,        \* request id -> the second WebhookLog row of that request id
    webhook_config, \* the WebhookConfig row of the endpoint
    probe       \* the evaluation of a function of the pipeline: inputs and result

vars == <<limits, now, req, queue, task, rec, cache, viable, tickets, nextTicket,
          log, hist, dup, webhook_config, probe>>

Keys == {"k1"}

\* cache_key = f"{CACHE_PREFIX}{config_id}:{ticket_summary}": every payload of
\* the model carries the same display name, hence the same summary
CacheKey(data) == "k1"

NoRequest == [payload |-> [status |-> <<>>, sev |-> <<>>], kind |-> "none"]
NoRecord ==
    [status |-> "none", action |-> "", ticket_id |-> 0, error_message |-> "",
     retry_count |-> 0, matched_rule |-> 0, processing_time |-> 0]
\* what the run has seen for a request id: the gateway calls made on its
\* behalf, the rules evaluated for it, the executions of the orchestrator,
\* whether the wrapper gave it up, whether it wrote the cache entry, the
\* requests that had written it when this one last read the cache or
\* searched, what its last get_ticket answered, and how often it wrote the
\* viability flag, and the tickets create_ticket returned for it
NoCalls ==
    [find |-> 0, get |-> 0, create |-> 0, note |-> 0, close |-> 0, evaluated |-> {},
     attempts |-> 0, exhausted |-> FALSE, wrote |-> FALSE, after |-> {},
     verify |-> "", flagged |-> 0, created |-> {}]
Idle ==
    [pc |-> "idle", rid |-> 0, retries |-> 0, delay |-> 0,
     alert |-> "", tid |-> 0, action |-> "", matched |-> 0, exc |-> "",
     failedCall |-> "", found |-> FALSE, row |-> 1, enabled |-> TRUE,
     ticket_data |-> [asked |-> FALSE, found |-> FALSE, closedFlag |-> FALSE,
                      status |-> ""]]

\* no function of the pipeline is being evaluated
NoProbe == [fn |-> "none"]

\* a message of the queue: the request, self.request.retries and the
\* countdown (tenths of a second) it was scheduled with
Message(rid, retries, delay) == [rid |-> rid, retries |-> retries, delay |-> delay]

InitWith(lim) ==
    /\ limits = lim
    /\ now = 0
    /\ req = [r \in RequestIds |-> NoRequest]
    /\ queue = {}
    /\ task = [w \in Workers |-> Idle]
    /\ rec = [r \in RequestIds |-> NoRecord]
    /\ cache = [k \in Keys |-> 0]
    /\ viable = [k \in Keys |-> FALSE]
    /\ tickets = [t \in TicketIds |-> "none"]
    /\ nextTicket = 1
    /\ log = [r \in RequestIds |-> NoCalls]
    /\ hist = [faults |-> 0, redeliveries |-> 0, env |-> 0, clean |-> TRUE,
               order |-> <<>>, confirmedClosed |-> {}, notedClosed |-> FALSE]
    /\ dup = [r \in RequestIds |-> NoRecord]
    /\ webhook_config = [exists |-> TRUE, is_enabled |-> TRUE,
                         routing_rules |-> lim.routing_rules]

\* The runs of the model: how many requests arrive, how many workers the pool
\* has, how many disturbances of each kind the environment causes, and the
\* jitters the wrapper draws.
Deployment(requests, workers, faults, redeliveries, env, clock, units, jitters) ==
    [requests |-> requests, workers |-> workers, faults |-> faults,
     redeliveries |-> redeliveries, env |-> env, clock |-> clock, units |-> units,
     jitters |-> jitters, routing_rules |-> Config.routing_rules]

Deployments ==
    {\* one worker, alerts one after the other
     Deployment(MaxRequests, 1, 0, 0, 0, 0, {DownUnit, UpUnit}, {10}),
     \* one worker, every kind of request, the clock
     Deployment(MaxRequests - 1, 1, 0, 0, 0, MaxNow, Units, {10}),
     \* two workers that interleave
     Deployment(MaxRequests - 1, 2, 0, 0, 0, 0, {DownUnit, UpUnit}, {10}),
     \* two workers, one monitor that keeps reporting down
     Deployment(MaxRequests, 2, 0, 0, 0, 0, {DownUnit}, {10}),
     \* one worker and collaborator failures
     Deployment(MaxRequests - 1, 1, MaxFaults, 0, 0, 0, {DownUnit, UpUnit}, {10}),
     \* one worker, ticket closes and TTL expiries
     Deployment(MaxRequests - 1, 1, 0, 0, MaxEnv, 0, {DownUnit, UpUnit}, {10}),
     \* one worker, alerts, replays and test triggers one after the other
     Deployment(MaxRequests, 1, 0, 0, 0, 0, {DownUnit, ReplayUnit, TestUnit}, {10}),
     \* one request or replay, and an operator at the endpoint
     Deployment(1, 1, 0, 0, MaxEnv, 0, {DownUnit, ReplayUnit}, {10}),
     \* one request that is delivered again, to two workers
     Deployment(1, 2, 0, MaxRedeliveries, 0, MaxNow, {DownUnit, DropUnit}, {10}),
     \* one request that fails until its retries are exhausted
     Deployment(1, 1, max_retries + 1 + MaxFaults, 0, 0, 0, Units, JitterTenths),
     \* one request to an endpoint whose last rule has a regex that does not
     \* compile
     [Deployment(1, 1, 0, 0, 0, 0, {DownUnit, DropUnit}, {10})
        EXCEPT !.routing_rules = UnvalidatedRules]}

Init == probe = NoProbe /\ \E lim \in Deployments : InitWith(lim)

Busy == {w \in Workers : task[w].pc # "idle"}

\* Workers are interchangeable: a message goes to the first idle one.
FirstIdle(w) == task[w].pc = "idle" /\ (w = "w2" => task["w1"].pc # "idle")

\* only the ids of replays count
is_replay_only(rid) == req[rid].kind = "replay"

\* is_replay = request_id.startswith(("replay_", "test_"))
is_replay(rid) == req[rid].kind \in {"replay", "test"}

CanFault == hist.faults < limits.faults

Fault == [hist EXCEPT !.faults = @ + 1, !.clean = FALSE]

Called(rid, op) == [log EXCEPT ![rid][op] = @ + 1]

\* the requests whose attempt has written the cache entry
Written == {r \in RequestIds : log[r].wrote}

\* the attempt of worker w is over: the message is acknowledged
Finish(w) == task' = [task EXCEPT ![w] = Idle]

Goto(w, pc) == task' = [task EXCEPT ![w].pc = pc]

\* ---------------------------------------------------------------- ingestion
\* webhook.py: "if not config" answers 404 and "if not config.is_enabled"
\* answers 403, else process_webhook_task.delay(config_id, data, request_id,
\* ...); the replay of a logged request and the test trigger look the log
\* entry or the config up and enqueue, whether the endpoint is enabled or not
Accepted(unit) ==
    /\ webhook_config.exists
    /\ unit.kind = "normal" => webhook_config.is_enabled

Enqueue(rid, unit) ==
    /\ rid <= limits.requests
    /\ unit \in limits.units
    /\ Accepted(unit)
    /\ req[rid].kind = "none"
    /\ \A r \in RequestIds : r < rid => req[r].kind # "none"
    /\ req' = [req EXCEPT ![rid] = unit]
    /\ queue' = queue \cup {Message(rid, 0, 0)}
    /\ UNCHANGED <<probe, webhook_config, limits, now, task, rec, dup, cache, viable, tickets, nextTicket, log, hist>>

\* ------------------------------------------------------------- orchestrator
\* handle_webhook_logic up to the first commit: the record of the request id
\* is created in status processing if there is none, and retry_count is set
UpsertRecord(r, retries) ==
    IF r.status = "none"
    THEN [NoRecord EXCEPT !.status = "processing", !.retry_count = retries]
    ELSE [r EXCEPT !.retry_count = retries]

\* time.time() - start_time: the column is NULL (0) until an attempt writes
\* its measurement, which is told apart by the number of the attempt
Elapsed(w) == task[w].retries + 1

\* the row the attempt of worker w holds as log_entry
Row(w) == IF task[w].row = 2 THEN dup[task[w].rid] ELSE rec[task[w].rid]

\* the attempt of worker w commits its log_entry
WriteRow(w, r) ==
    IF task[w].row = 2
    THEN dup' = [dup EXCEPT ![task[w].rid] = r] /\ UNCHANGED rec
    ELSE rec' = [rec EXCEPT ![task[w].rid] = r] /\ UNCHANGED dup

\* A worker takes a message: WebhookConfig.query.get(config_id), "if not
\* config: return", then WebhookLog.query.filter_by(request_id=...).first()
Start(w, m) ==
    /\ FirstIdle(w)
    /\ m \in queue
    /\ Cardinality(Busy) < limits.workers
    /\ queue' = queue \ {m}
    /\ task' = [task EXCEPT ![w] =
            IF webhook_config.exists
            THEN [Idle EXCEPT !.pc = "upsert", !.rid = m.rid, !.retries = m.retries,
                              !.delay = m.delay, !.found = rec[m.rid].status # "none",
                              !.enabled = webhook_config.is_enabled]
            ELSE Idle]
    /\ hist' = [hist EXCEPT
            !.clean = @ /\ Busy = {},
            !.order = IF \E i \in 1..Len(@) : @[i] = m.rid THEN @ ELSE Append(@, m.rid)]
    /\ log' = Called(m.rid, "attempts")
    /\ UNCHANGED <<probe, webhook_config, limits, now, req, rec, dup, cache, viable, tickets, nextTicket>>

\* "if not log_entry: ... db.session.add(log_entry)", retry_count, commit: the
\* attempt that found no row inserts one, whatever was inserted meanwhile
Upsert(w) ==
    /\ task[w].pc = "upsert"
    /\ LET rid == task[w].rid
           retries == task[w].retries
       IN  IF task[w].found \/ rec[rid].status = "none" THEN
               /\ rec' = [rec EXCEPT ![rid] = UpsertRecord(@, retries)]
               /\ task' = [task EXCEPT ![w].pc = "prepare", ![w].row = 1]
               /\ UNCHANGED dup
           ELSE
               /\ dup' = [dup EXCEPT ![rid] = UpsertRecord(NoRecord, retries)]
               /\ task' = [task EXCEPT ![w].pc = "prepare", ![w].row = 2]
               /\ UNCHANGED rec
    /\ UNCHANGED <<probe, webhook_config, limits, now, req, queue, cache, viable, tickets,
                   nextTicket, log, hist>>

\* The record store fails before the record is committed (the config query,
\* the record query or the first commit raises): nothing is written, and the
\* exception leaves handle_webhook_logic outside its try block.
StartFails(w, m) ==
    /\ FirstIdle(w)
    /\ m \in queue
    /\ Cardinality(Busy) < limits.workers
    /\ CanFault
    /\ queue' = queue \ {m}
    /\ task' = [task EXCEPT ![w] =
            [Idle EXCEPT !.pc = "wrapper", !.rid = m.rid, !.retries = m.retries,
                         !.delay = m.delay, !.exc = "store"]]
    /\ hist' = [Fault EXCEPT
            !.order = IF \E i \in 1..Len(@) : @[i] = m.rid THEN @ ELSE Append(@, m.rid)]
    /\ log' = Called(m.rid, "attempts")
    /\ UNCHANGED <<probe, webhook_config, limits, now, req, rec, dup, cache, viable, tickets, nextTicket>>

\* Maintenance check, routing rules (with the drop short-circuit) and the
\* trigger classification: computation on the payload and commits.
Prepare(w) ==
    /\ task[w].pc = "prepare"
    /\ LET rid == task[w].rid
           data == req[rid].payload
           routed == ApplyRoutingRules(
                        [Config EXCEPT !.routing_rules = webhook_config.routing_rules],
                        data)
           alert == AlertType(ResolveStr(data, Config.trigger_field),
                              Or(Config.open_value, <<"0">>),
                              Or(Config.close_value, <<"1">>))
       IN  IF is_in_maintenance(Config, now) THEN
               /\ WriteRow(w, [Row(w) EXCEPT !.status = "skipped",
                                              !.error_message = "maintenance",
                                              !.processing_time = Elapsed(w)])
               /\ Finish(w)
               /\ UNCHANGED log
           ELSE IF routed.raised THEN
               /\ task' = [task EXCEPT ![w].pc = "except", ![w].exc = "re.error"]
               /\ log' = [log EXCEPT ![rid].evaluated = routed.evaluated]
               /\ UNCHANGED <<rec, dup>>
           ELSE IF routed.drop # 0 THEN
               /\ WriteRow(w, [Row(w) EXCEPT !.status = "skipped",
                                              !.error_message = "drop",
                                              !.processing_time = Elapsed(w),
                                              !.matched_rule = routed.matched])
               /\ log' = [log EXCEPT ![rid].evaluated = routed.evaluated]
               /\ Finish(w)
           ELSE
               /\ task' = [task EXCEPT
                       ![w].pc = IF alert = "UP" THEN "up_cache_get" ELSE "cache_get",
                       ![w].alert = alert,
                       ![w].matched = routed.matched]
               /\ log' = [log EXCEPT ![rid].evaluated = routed.evaluated]
               /\ UNCHANGED <<rec, dup>>
    /\ UNCHANGED <<probe, webhook_config, limits, now, req, queue, cache, viable, tickets, nextTicket, hist>>

\* ------------------------------------------------------------------ gateway
\* a ticketing system whose search sees no open ticket
NoOpenTickets == {}

OpenTickets == {t \in TicketIds : tickets[t] = "open"}

\* the query without its closedFlag and status conditions
find_any_ticket ==
    IF {t \in TicketIds : tickets[t] # "none"} = {} THEN {0}
    ELSE {t \in TicketIds : tickets[t] # "none"} \cup (IF CanFault THEN {0} ELSE {})

\* find_open_ticket: the first open ticket whose summary contains the text,
\* None when there is none and None when the request fails
find_open_ticket ==
    IF OpenTickets = {} THEN {0}
    ELSE OpenTickets \cup (IF CanFault THEN {0} ELSE {})

\* get_ticket: the ticket's state, or None when the request fails
\* the ticket as the ticketing system returns it: an open ticket is in the
\* status it was created in; a closed one carries the closed flag, or a status
\* name the search excludes as well (the configured closed status, the
\* close_status of the config, "Cancelled")
Ticket(closedFlag, status) ==
    [asked |-> TRUE, found |-> TRUE, closedFlag |-> closedFlag, status |-> status]

TicketData(state) ==
    IF state = "closed"
    THEN {Ticket(TRUE, "Closed"), Ticket(FALSE, Config.close_status),
          Ticket(FALSE, "Cancelled")}
    ELSE {Ticket(FALSE, Config.status)}

get_ticket(tid) ==
    TicketData(tickets[tid])
        \cup (IF CanFault
              THEN {[asked |-> TRUE, found |-> FALSE, closedFlag |-> FALSE, status |-> ""]}
              ELSE {})

\* create_ticket: the new ticket's id, or None when the request fails
create_ticket ==
    (IF nextTicket <= MaxTickets THEN {nextTicket} ELSE {0})
        \cup (IF CanFault THEN {0} ELSE {})

\* close_ticket: True when the PATCH succeeded, False when it did not
close_ticket(tid) == {TRUE} \cup (IF CanFault THEN {FALSE} ELSE {})

\* the note is posted; its result is not looked at by the orchestrator
AddNote(rid, tid) ==
    /\ log' = Called(rid, "note")
    /\ hist' = [hist EXCEPT !.notedClosed = @ \/ tickets[tid] = "closed"]

\* ------------------------------------------------- DOWN / GENERIC: dedup flow
\* cached_val = redis_client.get(cache_key)
CacheGet(w) ==
    /\ task[w].pc = "cache_get"
    /\ LET k == CacheKey(req[task[w].rid].payload)
       IN  task' = [task EXCEPT ![w].tid = cache[k],
                                ![w].pc = IF cache[k] # 0 THEN "viable_get" ELSE "find"]
    /\ log' = [log EXCEPT ![task[w].rid].after = Written]
    /\ UNCHANGED <<probe, webhook_config, limits, now, req, queue, rec, dup, cache, viable, tickets, nextTicket,
                   hist>>

\* "if not is_replay and redis_client.get(viable_key)": the verification is
\* skipped exactly when the flag is there and the request is no replay/test
SkipVerification(rid, flag) == ~is_replay(rid) /\ flag

ViableGet(w) ==
    /\ task[w].pc = "viable_get"
    /\ LET rid == task[w].rid
           k == CacheKey(req[rid].payload)
       IN  Goto(w, IF SkipVerification(rid, viable[k]) THEN "note_cached"
                   ELSE "get_ticket")
    /\ UNCHANGED <<probe, webhook_config, limits, now, req, queue, rec, dup, cache, viable, tickets, nextTicket,
                   log, hist>>

\* the closed statuses without the one of the config
default_closed_statuses == {"Completed", "Cancelled", "Closed"}

\* closed_statuses: the three names, cw_client.status_closed and, "if
\* config.close_status", the one of the config
closed_statuses ==
    {"Completed", "Cancelled", "Closed"} \cup {"Closed"}
        \cup (IF Config.close_status # "" THEN {Config.close_status} ELSE {})

\* "is_closed or status_name in closed_statuses"
Verdict(ticket_data) ==
    IF ~ticket_data.found THEN "None"
    ELSE IF ticket_data.closedFlag \/ ticket_data.status \in closed_statuses THEN "closed"
    ELSE "open"

\* a failed query refreshes the flag like a ticket seen open
AfterVerificationFlagsFailure(rid, ticket_data) ==
    IF Verdict(ticket_data) = "closed" THEN "del_cache"
    ELSE IF is_replay(rid) THEN "note_cached"
    ELSE "set_viable"

\* a failed query is taken for a closed ticket
AfterVerificationFailsClosed(rid, ticket_data) ==
    IF Verdict(ticket_data) \in {"None", "closed"} THEN "del_cache"
    ELSE IF is_replay(rid) THEN "note_cached"
    ELSE "set_viable"

\* where the attempt goes on after get_ticket: "if ticket_data is None:
\* is_usable = True", a closed ticket leaves is_usable False, an open one is
\* usable and, "if not is_replay", the flag is set
AfterVerification(rid, ticket_data) ==
    IF Verdict(ticket_data) = "None" THEN "note_cached"
    ELSE IF Verdict(ticket_data) = "closed" THEN "del_cache"
    ELSE IF is_replay(rid) THEN "note_cached"
    ELSE "set_viable"

\* ticket_data = cw_client.get_ticket(ticket_id): None fails open, a closed
\* ticket invalidates the cache, an open one is usable
GetTicket(w) ==
    /\ task[w].pc = "get_ticket"
    /\ LET rid == task[w].rid
           tid == task[w].tid
       IN  \E ticket_data \in get_ticket(tid) :
            /\ log' = [Called(rid, "get") EXCEPT ![rid].verify = Verdict(ticket_data)]
            /\ task' = [task EXCEPT
                    ![w].ticket_data = ticket_data,
                    ![w].pc = AfterVerification(rid, ticket_data)]
            /\ hist' = IF Verdict(ticket_data) = "None" THEN Fault
                       ELSE IF Verdict(ticket_data) = "closed"
                            THEN [hist EXCEPT !.confirmedClosed = @ \cup {tid}]
                       ELSE hist
    /\ UNCHANGED <<probe, webhook_config, limits, now, req, queue, rec, dup, cache, viable, tickets, nextTicket>>

\* redis_client.set(viable_key, "1", ex=VIABILITY_TTL)
SetViable(w) ==
    /\ task[w].pc = "set_viable"
    /\ viable' = [viable EXCEPT ![CacheKey(req[task[w].rid].payload)] = TRUE]
    /\ Goto(w, "note_cached")
    /\ log' = Called(task[w].rid, "flagged")
    /\ UNCHANGED <<probe, webhook_config, limits, now, req, queue, rec, dup, cache, tickets, nextTicket, hist>>

\* log_entry.matched_rule, assigned in the rule loop, reaches the store with
\* the next commit of the attempt
WithMatched(r, matched) == IF matched # 0 THEN [r EXCEPT !.matched_rule = matched] ELSE r

\* is_usable: a note on the cached ticket, the record is finalised as an update
NoteCached(w) ==
    /\ task[w].pc = "note_cached"
    /\ LET rid == task[w].rid
           tid == task[w].tid
       IN  /\ AddNote(rid, tid)
           /\ WriteRow(w, [WithMatched(Row(w), task[w].matched) EXCEPT
                        !.status = "processed", !.action = "update", !.ticket_id = tid])
    /\ Finish(w)
    /\ UNCHANGED <<probe, webhook_config, limits, now, req, queue, cache, viable, tickets, nextTicket>>

\* the cached ticket is closed: both entries are deleted, ticket_id = None
DelCache(w) ==
    /\ task[w].pc = "del_cache"
    /\ LET k == CacheKey(req[task[w].rid].payload)
       IN  /\ cache' = [cache EXCEPT ![k] = 0]
           /\ viable' = [viable EXCEPT ![k] = FALSE]
    /\ task' = [task EXCEPT ![w].tid = 0, ![w].pc = "find"]
    /\ UNCHANGED <<probe, webhook_config, limits, now, req, queue, rec, dup, tickets, nextTicket, log, hist>>

\* existing_ticket = cw_client.find_open_ticket(ticket_summary, close_status=...)
FindOpen(w) ==
    /\ task[w].pc = "find"
    /\ \E existing \in find_open_ticket :
        /\ log' = [Called(task[w].rid, "find") EXCEPT ![task[w].rid].after = Written]
        /\ hist' = IF existing = 0 /\ OpenTickets # {} THEN Fault ELSE hist
        /\ task' = [task EXCEPT ![w].tid = existing,
                                ![w].pc = IF existing # 0 THEN "note_found" ELSE "create",
                                ![w].failedCall =
                                    IF existing = 0 /\ OpenTickets # {} THEN "find" ELSE @]
    /\ UNCHANGED <<probe, webhook_config, limits, now, req, queue, rec, dup, cache, viable, tickets, nextTicket>>

\* a note on the ticket found in the ticketing system
NoteFound(w) ==
    /\ task[w].pc = "note_found"
    /\ AddNote(task[w].rid, task[w].tid)
    /\ Goto(w, "set_cache_found")
    /\ UNCHANGED <<probe, webhook_config, limits, now, req, queue, rec, dup, cache, viable, tickets, nextTicket>>

\* the found ticket is cached, the record is finalised as an update
SetCacheFound(w) ==
    /\ task[w].pc = "set_cache_found"
    /\ LET rid == task[w].rid
           tid == task[w].tid
       IN  /\ cache' = [cache EXCEPT ![CacheKey(req[rid].payload)] = tid]
           /\ WriteRow(w, [WithMatched(Row(w), task[w].matched) EXCEPT
                        !.status = "processed", !.action = "update", !.ticket_id = tid])
           /\ log' = [log EXCEPT ![rid].wrote = TRUE]
    /\ Finish(w)
    /\ UNCHANGED <<probe, webhook_config, limits, now, req, queue, viable, tickets, nextTicket, hist>>

\* new_ticket = cw_client.create_ticket(...); "if not new_ticket: raise"
CreateTicket(w) ==
    /\ task[w].pc = "create"
    /\ \E new_ticket \in create_ticket :
        /\ log' = [Called(task[w].rid, "create") EXCEPT
                    ![task[w].rid].created = @ \cup ({new_ticket} \ {0})]
        /\ IF new_ticket = 0 THEN
               /\ task' = [task EXCEPT ![w].pc = "except", ![w].exc = "create",
                                       ![w].failedCall = "create"]
               /\ hist' = IF nextTicket <= MaxTickets THEN Fault
                          ELSE [hist EXCEPT !.clean = FALSE]
               /\ UNCHANGED <<tickets, nextTicket>>
           ELSE
               /\ task' = [task EXCEPT ![w].pc = "set_cache_new", ![w].tid = new_ticket]
               /\ tickets' = [tickets EXCEPT ![new_ticket] = "open"]
               /\ nextTicket' = nextTicket + 1
               /\ UNCHANGED hist
    /\ UNCHANGED <<probe, webhook_config, limits, now, req, queue, rec, dup, cache, viable>>

\* redis_client.set(cache_key, str(ticket_id), ex=CACHE_TTL); action = "create"
SetCacheNew(w) ==
    /\ task[w].pc = "set_cache_new"
    /\ cache' = [cache EXCEPT ![CacheKey(req[task[w].rid].payload)] = task[w].tid]
    /\ task' = [task EXCEPT ![w].pc = "finalize", ![w].action = "create"]
    /\ log' = [log EXCEPT ![task[w].rid].wrote = TRUE]
    /\ UNCHANGED <<probe, webhook_config, limits, now, req, queue, rec, dup, viable, tickets, nextTicket, hist>>

\* --------------------------------------------------------------- UP: close flow
UpCacheGet(w) ==
    /\ task[w].pc = "up_cache_get"
    /\ LET k == CacheKey(req[task[w].rid].payload)
       IN  task' = [task EXCEPT ![w].tid = cache[k],
                                ![w].pc = IF cache[k] # 0 THEN "close" ELSE "up_find"]
    /\ UNCHANGED <<probe, webhook_config, limits, now, req, queue, rec, dup, cache, viable, tickets, nextTicket,
                   log, hist>>

\* a search without a result handled as an error of the attempt
UpFindRaising(w) ==
    /\ task[w].pc = "up_find"
    /\ \E existing \in find_open_ticket :
        /\ log' = Called(task[w].rid, "find")
        /\ hist' = IF existing = 0 /\ OpenTickets # {} THEN Fault ELSE hist
        /\ task' = [task EXCEPT ![w].tid = existing,
                                ![w].pc = IF existing # 0 THEN "close" ELSE "except",
                                ![w].exc = IF existing = 0 THEN "search" ELSE @]
    /\ UNCHANGED <<probe, webhook_config, limits, now, req, queue, rec, dup, cache, viable, tickets, nextTicket>>

\* existing_ticket = cw_client.find_open_ticket(ticket_summary)
UpFind(w) ==
    /\ task[w].pc = "up_find"
    /\ \E existing \in find_open_ticket :
        /\ log' = Called(task[w].rid, "find")
        /\ hist' = IF existing = 0 /\ OpenTickets # {} THEN Fault ELSE hist
        /\ task' = [task EXCEPT ![w].tid = existing,
                                ![w].pc = IF existing # 0 THEN "close" ELSE "finalize",
                                ![w].failedCall =
                                    IF existing = 0 /\ OpenTickets # {} THEN "find" ELSE @]
    /\ UNCHANGED <<probe, webhook_config, limits, now, req, queue, rec, dup, cache, viable, tickets, nextTicket>>

\* the cache entry deleted and the close recorded whatever close_ticket answers
CloseTicketUnconditional(w) ==
    /\ task[w].pc = "close"
    /\ LET tid == task[w].tid
       IN  \E ok \in close_ticket(tid) :
            /\ log' = Called(task[w].rid, "close")
            /\ IF ok THEN
                   /\ tickets' = [tickets EXCEPT ![tid] = "closed"]
                   /\ hist' = [hist EXCEPT !.confirmedClosed = @ \cup {tid}]
                   /\ Goto(w, "up_del")
               ELSE
                   /\ hist' = Fault
                   /\ task' = [task EXCEPT ![w].pc = "up_del",
                                           ![w].failedCall = "close"]
                   /\ UNCHANGED tickets
    /\ UNCHANGED <<probe, webhook_config, limits, now, req, queue, rec, dup, cache, viable, nextTicket>>

\* "if cw_client.close_ticket(...)": a False result is not an error
CloseTicket(w) ==
    /\ task[w].pc = "close"
    /\ LET tid == task[w].tid
       IN  \E ok \in close_ticket(tid) :
            /\ log' = Called(task[w].rid, "close")
            /\ IF ok THEN
                   /\ tickets' = [tickets EXCEPT ![tid] = "closed"]
                   /\ hist' = [hist EXCEPT !.confirmedClosed = @ \cup {tid}]
                   /\ Goto(w, "up_del")
               ELSE
                   /\ hist' = Fault
                   /\ task' = [task EXCEPT ![w].pc = "finalize",
                                           ![w].failedCall = "close"]
                   /\ UNCHANGED tickets
    /\ UNCHANGED <<probe, webhook_config, limits, now, req, queue, rec, dup, cache, viable, nextTicket>>

\* the close succeeded: redis_client.delete(cache_key); action = "close"
UpDel(w) ==
    /\ task[w].pc = "up_del"
    /\ cache' = [cache EXCEPT ![CacheKey(req[task[w].rid].payload)] = 0]
    /\ task' = [task EXCEPT ![w].pc = "finalize", ![w].action = "close"]
    /\ UNCHANGED <<probe, webhook_config, limits, now, req, queue, rec, dup, viable, tickets, nextTicket, log, hist>>

\* ------------------------------------------------------------ finalisation
\* "Finalize SUCCESS": status, ticket id and the pending action are committed
Finalize(w) ==
    /\ task[w].pc = "finalize"
    /\ WriteRow(w, [WithMatched(Row(w), task[w].matched) EXCEPT
                    !.status = "processed",
                    !.ticket_id = task[w].tid,
                    !.processing_time = Elapsed(w),
                    !.action = IF task[w].action # "" THEN task[w].action ELSE
                                   Row(w).action])
    /\ Finish(w)
    /\ UNCHANGED <<probe, webhook_config, limits, now, req, queue, cache, viable, tickets, nextTicket, log, hist>>

\* A cache or record-store call of the try block raises (connection lost,
\* timeout): the attempt continues in the except clause.
RaisingPcs ==
    {"prepare", "cache_get", "viable_get", "set_viable", "del_cache", "set_cache_found",
     "set_cache_new", "up_cache_get", "up_del", "finalize"}

Raise(w) ==
    /\ task[w].pc \in RaisingPcs
    /\ CanFault
    /\ hist' = Fault
    /\ task' = [task EXCEPT ![w].pc = "except", ![w].exc = "io"]
    /\ UNCHANGED <<probe, webhook_config, limits, now, req, queue, rec, dup, cache, viable, tickets, nextTicket, log>>

\* except Exception: rollback, status failed with the error message, re-raise
Except(w) ==
    /\ task[w].pc = "except"
    /\ WriteRow(w, [Row(w) EXCEPT !.status = "failed", !.error_message = task[w].exc,
                                   !.processing_time = Elapsed(w)])
    /\ Goto(w, "wrapper")
    /\ UNCHANGED <<probe, webhook_config, limits, now, req, queue, cache, viable, tickets, nextTicket, log, hist>>

\* --------------------------------------------------------- retry / DLQ wrapper
\* "if self.request.retries >= self.max_retries"
\* the test of the wrapper letting one more retry through
RetriesExceeded(retries) == retries > max_retries

RetriesExhausted(retries) == retries >= max_retries

\* the final failure: the record, if there is one, is marked dlq
MarkDlq(r, retries, exc) ==
    IF r.status = "none" THEN r
    ELSE [r EXCEPT !.status = "dlq", !.error_message = "max_retries",
                   !.retry_count = retries]

Wrapper(w) ==
    /\ task[w].pc = "wrapper"
    /\ LET rid == task[w].rid
           retries == task[w].retries
       IN  IF RetriesExhausted(retries) THEN
               /\ rec' = [rec EXCEPT ![rid] = MarkDlq(@, retries, task[w].exc)]
               /\ UNCHANGED dup
               /\ log' = [log EXCEPT ![rid].exhausted = TRUE]
               /\ UNCHANGED queue
           ELSE
               /\ \E jitter \in limits.jitters :
                    queue' = queue \cup
                        {Message(rid, retries + 1, Countdown(retries, jitter))}
               /\ UNCHANGED <<rec, dup, log>>
    /\ Finish(w)
    /\ UNCHANGED <<probe, webhook_config, limits, now, req, cache, viable, tickets, nextTicket, hist>>

\* -------------------------------------------------------------- environment
CanDisturb == hist.env < limits.env

Disturbed == [hist EXCEPT !.env = @ + 1, !.clean = FALSE]

\* the clock advances
Tick ==
    /\ now < limits.clock
    /\ now' = now + 1
    /\ UNCHANGED <<probe, webhook_config, limits, req, queue, task, rec, dup, cache, viable, tickets, nextTicket,
                   log, hist>>

\* somebody closes a ticket in the ticketing system
ExternalClose(t) ==
    /\ CanDisturb
    /\ tickets[t] = "open"
    /\ tickets' = [tickets EXCEPT ![t] = "closed"]
    /\ hist' = Disturbed
    /\ UNCHANGED <<probe, webhook_config, limits, now, req, queue, task, rec, dup, cache, viable, nextTicket, log>>

\* the operator pauses or resumes the endpoint
toggle_endpoint ==
    /\ CanDisturb
    /\ webhook_config.exists
    /\ webhook_config' = [webhook_config EXCEPT !.is_enabled = ~@]
    /\ hist' = Disturbed
    /\ UNCHANGED <<probe, limits, now, req, queue, task, rec, dup, cache, viable, tickets, nextTicket,
                   log>>

\* the operator deletes the endpoint: the delete commits only while no log
\* row points at the config (config_id is not nullable)
delete_endpoint ==
    /\ CanDisturb
    /\ webhook_config.exists
    /\ \A r \in RequestIds : rec[r].status = "none" /\ dup[r].status = "none"
    /\ webhook_config' = [webhook_config EXCEPT !.exists = FALSE]
    /\ hist' = Disturbed
    /\ UNCHANGED <<probe, limits, now, req, queue, task, rec, dup, cache, viable, tickets, nextTicket,
                   log>>

\* CACHE_TTL runs out
ExpireCache(k) ==
    /\ CanDisturb
    /\ cache[k] # 0
    /\ cache' = [cache EXCEPT ![k] = 0]
    /\ hist' = Disturbed
    /\ UNCHANGED <<probe, webhook_config, limits, now, req, queue, task, rec, dup, viable, tickets, nextTicket, log>>

\* VIABILITY_TTL runs out
ExpireViable(k) ==
    /\ CanDisturb
    /\ viable[k]
    /\ viable' = [viable EXCEPT ![k] = FALSE]
    /\ hist' = Disturbed
    /\ UNCHANGED <<probe, webhook_config, limits, now, req, queue, task, rec, dup, cache, tickets, nextTicket, log>>

CanRedeliver == hist.redeliveries < limits.redeliveries

Redelivered == [hist EXCEPT !.redeliveries = @ + 1, !.clean = FALSE]

TaskMessage(w) == Message(task[w].rid, task[w].retries, task[w].delay)

\* at-least-once delivery: the message a worker executes is delivered again
Redeliver(w) ==
    /\ task[w].pc # "idle"
    /\ CanRedeliver
    /\ queue' = queue \cup {TaskMessage(w)}
    /\ hist' = Redelivered
    /\ UNCHANGED <<probe, webhook_config, limits, now, req, task, rec, dup, cache, viable, tickets, nextTicket, log>>

\* the worker is killed in the middle of the attempt; the queue delivers the
\* message again
Kill(w) ==
    /\ task[w].pc # "idle"
    /\ CanRedeliver
    /\ queue' = queue \cup {TaskMessage(w)}
    /\ Finish(w)
    /\ hist' = Redelivered
    /\ UNCHANGED <<probe, webhook_config, limits, now, req, rec, dup, cache, viable, tickets, nextTicket, log>>

\* ---------------------------------------------------------------- behaviours
Step(w) ==
    \/ \E m \in queue : Start(w, m)
    \/ \E m \in queue : StartFails(w, m)
    \/ Upsert(w)
    \/ Prepare(w)
    \/ CacheGet(w)
    \/ ViableGet(w)
    \/ GetTicket(w)
    \/ SetViable(w)
    \/ NoteCached(w)
    \/ DelCache(w)
    \/ FindOpen(w)
    \/ NoteFound(w)
    \/ SetCacheFound(w)
    \/ CreateTicket(w)
    \/ SetCacheNew(w)
    \/ UpCacheGet(w)
    \/ UpFind(w)
    \/ CloseTicket(w)
    \/ UpDel(w)
    \/ Finalize(w)
    \/ Raise(w)
    \/ Except(w)
    \/ Wrapper(w)

Environment ==
    \/ Tick
    \/ \E t \in TicketIds : ExternalClose(t)
    \/ \E k \in Keys : ExpireCache(k)
    \/ \E k \in Keys : ExpireViable(k)
    \/ toggle_endpoint
    \/ delete_endpoint
    \/ \E w \in Workers : Redeliver(w)
    \/ \E w \in Workers : Kill(w)

Next ==
    \/ \E rid \in RequestIds, unit \in Units : Enqueue(rid, unit)
    \/ \E w \in Workers : Step(w)
    \/ Environment

Spec == Init /\ [][Next]_vars

------------------------------------------------------------------------------
\* The functions of the pipeline, evaluated on their own: an input is drawn,
\* the function is applied to it, the pipeline itself is at rest.

MaxWindows == 2     \* windows in a maintenance-window list

pipeline == <<limits, now, req, queue, task, rec, cache, viable, tickets, nextTicket,
              log, hist, dup, webhook_config>>

\* the windows and instants the evaluator is applied to; day 0 of the epoch
\* is a Thursday, day 1 a Friday
MaintenanceProbes ==
    LET WindowSamples ==
            {Window("once", Iso(At(0, 10, 0, 0)), Iso(At(0, 23, 30, 0)), {}),
             Window("once", Iso(At(1, 10, 0, 0)), Iso(At(0, 10, 0, 0)), {}),
             Window("daily", HHMM(22, 0), HHMM(2, 0), {}),
             Window("daily", HHMM(2, 0), HHMM(22, 0), {}),
             Window("daily", HHMM(10, 0), HHMM(10, 0), {}),
             Window("weekly", HHMM(22, 0), HHMM(2, 0), {"Thu"}),
             Window("weekly", HHMM(2, 0), HHMM(22, 0), {"Fri", "Sat"}),
             Window("weekly", HHMM(2, 0), HHMM(22, 0), {}),
             Window("daily", HHMM(2, 0), Missing, {}),
             Window("daily", Garbled, HHMM(2, 0), {}),
             Window("once", HHMM(9, 0), HHMM(17, 0), {}),
             Window("monthly", HHMM(2, 0), HHMM(22, 0), {})}
        NowSamples ==
            {At(0, 2, 0, 0), At(0, 2, 0, 30), At(0, 10, 0, 0),
             At(0, 23, 30, 0), At(1, 10, 0, 0), At(1, 22, 0, 0)}
    IN  {[fn |-> "is_in_maintenance", windows |-> ws, now |-> t, done |-> FALSE,
          out |-> FALSE] :
            ws \in UNION {[1..n -> WindowSamples] : n \in 0..MaxWindows},
            t \in NowSamples}

\* is_in_maintenance(config) at the instant probe.now
EvalMaintenance ==
    /\ probe.fn = "is_in_maintenance" /\ ~probe.done
    /\ probe' = [probe EXCEPT
            !.done = TRUE,
            !.out = is_in_maintenance([maintenance_windows |-> probe.windows],
                                      probe.now)]
    /\ UNCHANGED pipeline

MaxEntries == 2     \* entries in an open-value or close-value list

\* the value of config.open_value / close_value that lists the entries, each
\* padded with blanks or not
RECURSIVE Listed(_, _)
Listed(entries, pad) ==
    IF Len(entries) = 0 THEN <<>>
    ELSE (IF pad THEN <<" ">> \o Head(entries) \o <<" ">> ELSE Head(entries))
         \o (IF Len(entries) > 1 THEN <<",">> \o Listed(Tail(entries), pad) ELSE <<>>)

\* the entries of the lists and the trigger values the classifier is applied
\* to; the forms store "0" and "1" for an empty field, a stored list has an
\* entry
ClassifierProbes ==
    LET EntrySamples == {<<"0">>, <<"1">>, <<"2">>, <<"1", "0">>}
        ValueSamples == {<<"0">>, <<"1">>, <<"5">>, <<"1", "0">>, <<" ", "0">>}
    IN  {[fn |-> "alert_type", open |-> o, close |-> c, pad |-> pad, val |-> v,
          done |-> FALSE, out |-> ""] :
            o \in UNION {[1..n -> EntrySamples] : n \in 1..MaxEntries},
            c \in UNION {[1..n -> EntrySamples \ {<<"0">>}] : n \in 1..MaxEntries},
            pad \in BOOLEAN, v \in ValueSamples}

\* open_triggers, close_triggers and alert_type for the value actual_val
EvalAlertType ==
    /\ probe.fn = "alert_type" /\ ~probe.done
    /\ probe' = [probe EXCEPT
            !.done = TRUE,
            !.out = AlertType(probe.val,
                              Or(Listed(probe.open, probe.pad), <<"0">>),
                              Or(Listed(probe.close, probe.pad), <<"1">>))]
    /\ UNCHANGED pipeline

MaxTokens == 4      \* tokens in a mapping template

\* the tokens of the templates, and the payloads: each path of the two
\* variables is missing, empty or holds a name
TemplateProbes ==
    LET TokenSamples == {<<"$", "m">>, <<"$", "r">>, <<"d">>, <<"i", "n">>}
        PayloadSamples ==
            UNION {[D -> {<<>>, <<"A">>, <<"B">>}] :
                        D \in SUBSET {tok \in TokenSamples : IsVariable(tok)}}
    IN  {[fn |-> "map_template", tokens |-> toks, sep |-> sep, data |-> data,
          done |-> FALSE, out |-> [set |-> FALSE, val |-> <<>>]] :
            toks \in UNION {[1..n -> TokenSamples] : n \in 2..MaxTokens},
            sep \in {<<" ">>, <<" ", " ">>}, data \in PayloadSamples}

\* the mapping of one field whose value is a template
EvalMapTemplate ==
    /\ probe.fn = "map_template" /\ ~probe.done
    /\ probe' = [probe EXCEPT
            !.done = TRUE,
            !.out = MapTemplate(Join(probe.tokens, probe.sep), probe.data)]
    /\ UNCHANGED pipeline

\* the fields a mapping may set
overridable_fields ==
    {"summary", "description", "customer_id", "ticket_type", "subtype", "item",
     "priority", "board", "status", "severity", "impact"}

\* a config whose static fields are all "S", with one routing rule on the
\* severity of the payload
ProbeConfig(overrides, global_routing_enabled, customer_id_default) ==
    [ticket_prefix |-> <<"A", ":">>, description_template |-> <<"T">>,
     board |-> <<"S">>, status |-> <<"S">>, ticket_type |-> <<"S">>,
     subtype |-> <<"S">>, item |-> <<"S">>, priority |-> <<"S">>,
     routing_rules |-> << [path |-> "sev", regex |-> <<"i">>, overrides |-> overrides] >>,
     global_routing_enabled |-> global_routing_enabled,
     customer_id_default |-> customer_id_default]

\* the calls of create_ticket: one family varies the field a rule and a
\* mapping set, the other the sources of the company id (the display name
\* with or without a #CW tag, the tenant, the TenantMap rows, the company
\* directory and the answer of the LLM)
CreateTicketProbes ==
    LET NoEnv == [mappings |-> <<>>, companies |-> <<>>, llm_resp |-> <<>>]
        Mapping(t, c) == [tenant_value |-> t, company_id |-> c]
        Names == {[name |-> <<"S">>, tag |-> <<>>],
                  [name |-> <<"S", "#", "C", "W", "7">>, tag |-> <<"7">>],
                  [name |-> <<"S", "#", "C", "W", "-", "7", " ", "x">>, tag |-> <<"7">>],
                  [name |-> <<"#", "C", "W", "-", "#", "C", "W", "8">>, tag |-> <<"8">>]}
        Tables == {<<>>,
                   <<Mapping(<<"a", "b">>, <<"E">>)>>,
                   <<Mapping(<<"a", "*">>, <<"W">>)>>,
                   <<Mapping(<<"a", "*">>, <<"W">>), Mapping(<<"a", "b">>, <<"E">>)>>,
                   <<Mapping(<<"a", "?">>, <<>>)>>,
                   <<Mapping(<<"?", "z">>, <<"V">>), Mapping(<<"*">>, <<"W">>)>>}
        Probe(config, data, mapped_vals, env, tag) ==
            [fn |-> "create_ticket", config |-> config, data |-> data,
             mapped_vals |-> mapped_vals, env |-> env, tag |-> tag,
             done |-> FALSE, out |-> <<>>]
    IN  {Probe(ProbeConfig([x \in {f} |-> <<"R">>], FALSE, <<"D">>),
               [monitor_name |-> <<"S">>, tenant |-> <<>>, sev |-> sev],
               [x \in IF mapped THEN {f} ELSE {} |-> <<"M">>], NoEnv, <<>>) :
            f \in overridable_fields, sev \in {<<"i">>, <<"o">>}, mapped \in BOOLEAN}
        \cup
        {Probe(ProbeConfig([x \in {} |-> <<>>], enabled, default),
               [monitor_name |-> n.name, tenant |-> tenant, sev |-> <<"o">>],
               [x \in IF mapped THEN {"customer_id"} ELSE {} |-> <<"M">>],
               [mappings |-> table, companies |-> companies, llm_resp |-> llm_resp],
               n.tag) :
            n \in Names, mapped \in BOOLEAN, enabled \in BOOLEAN,
            default \in {<<>>, <<"D">>}, tenant \in {<<>>, <<"a", "b">>, <<"z", "z">>},
            table \in Tables, companies \in {<<>>, << <<"X">>, <<"Y">> >>},
            llm_resp \in {<<>>, <<"N", "O", "N", "E">>, <<"X">>, <<"X", " ">>, <<"Q">>}}

\* the arguments the orchestrator passes to cw_client.create_ticket
EvalCreateTicket ==
    /\ probe.fn = "create_ticket" /\ ~probe.done
    /\ probe' = [probe EXCEPT
            !.done = TRUE,
            !.out = CreateTicketArgs(probe.config, probe.data, probe.mapped_vals,
                                     probe.env)]
    /\ UNCHANGED pipeline

MaxDepth == 2       \* dicts and lists around the entries of a payload

\* two requests: the same entries under the same number of dicts and lists,
\* under keys that are sensitive words, contain one, contain none or almost
\* one; the two values of an entry are equal or differ, and are scalars,
\* dicts or lists; the headers the ingestion passes on (Authorization and
\* Cookie are popped)
SnapshotProbes ==
    LET RECURSIVE Wrapped(_, _)
        Wrapped(n, value) ==
            IF n = 0 THEN value
            ELSE IF n % 2 = 1
                 THEN Dict(<<Item(<<"h", "o", "s", "t">>, Scalar("h")),
                             Item(<<"d", "a", "t", "a">>, Wrapped(n - 1, value))>>)
                 ELSE List(<<Wrapped(n - 1, value), Scalar("x")>>)
        KeySamples ==
            {<<"p", "a", "s", "s", "w", "o", "r", "d">>,
             <<"A", "P", "I", "_", "K", "E", "Y">>,
             <<"m", "o", "n", "k", "e", "y">>,
             <<"n", "a", "m", "e">>,
             <<"t", "o", "k">>}
        ValueSamples ==
            {Scalar("a"), Scalar("b"), Scalar("***"),
             Dict(<<Item(<<"n", "a", "m", "e">>, Scalar("a"))>>),
             List(<<Scalar("b")>>)}
        Payload(n, k1, v1, k2, v2) ==
            Wrapped(n, Dict(<<Item(k1, v1), Item(k2, v2)>>))
        Host == Item(<<"H", "o", "s", "t">>, Scalar("h"))
        ApiKey(text) ==
            Item(<<"X", "-", "A", "p", "i", "-", "K", "e", "y">>, Scalar(text))
        HeaderSamples ==
            {<<Dict(<<>>), Dict(<<>>)>>,
             <<Dict(<<Host>>), Dict(<<Host>>)>>,
             <<Dict(<<Host, ApiKey("a")>>), Dict(<<Host, ApiKey("b")>>)>>,
             <<Dict(<<ApiKey("a")>>), Dict(<<Host>>)>>}
    IN  {[fn |-> "snapshot",
          data |-> Payload(n, k1, v1, <<"n", "a", "m", "e">>, w1), headers |-> h[1],
          other |-> Payload(n, k1, v2, <<"n", "a", "m", "e">>, w2), other_headers |-> h[2],
          done |-> FALSE, out |-> <<>>] :
            n \in 0..MaxDepth, k1 \in KeySamples \ {<<"n", "a", "m", "e">>},
            v1 \in ValueSamples, v2 \in ValueSamples,
            w1 \in {Scalar("a")}, w2 \in {Scalar("a"), Scalar("b")},
            h \in HeaderSamples}

\* the snapshots the two requests store in their records
EvalSnapshot ==
    /\ probe.fn = "snapshot" /\ ~probe.done
    /\ probe' = [probe EXCEPT
            !.done = TRUE,
            !.out = <<Snapshot(probe.data, probe.headers),
                      Snapshot(probe.other, probe.other_headers)>>]
    /\ UNCHANGED pipeline

MaxRules == 3       \* rules in a list of routing rules

\* lists of rules on the severity of the payload: a rule matches it or not
\* and sets the board, the priority, both or nothing to a value of its own
RuleProbes ==
    LET Kinds == {[regex |-> r, sets |-> fs] :
                    r \in {<<"i">>, <<"z">>},
                    fs \in SUBSET {"board", "priority"}}
        Rules(kinds) ==
            [i \in DOMAIN kinds |->
                [path |-> "sev", regex |-> kinds[i].regex,
                 overrides |-> [f \in kinds[i].sets |-> <<"R", i>>]]]
    IN  {[fn |-> "rules", rules |-> Rules(kinds), alert |-> [sev |-> <<"I">>],
          fields |-> [f \in RuleFields |-> <<"S">>],
          done |-> FALSE, out |-> <<>>] :
            kinds \in UNION {[1..n -> Kinds] : n \in 0..MaxRules}}

\* the routing-rule loop of the orchestrator
EvalRules ==
    /\ probe.fn = "rules" /\ ~probe.done
    /\ probe' = [probe EXCEPT
            !.done = TRUE,
            !.out = RuleLoop(probe.rules, probe.alert, 1, {}, 0, probe.fields)]
    /\ UNCHANGED pipeline

MaxOver == 3        \* characters by which a summary exceeds the limit

\* summaries around the limit: a prefix of the config, of the environment or
\* none; a display name that is a marker and a body of the given length; a
\* mapped summary or none; a list of substrings to remove
SummaryProbes ==
    LET Repeat(c, n) == [i \in 1..n |-> c]
        Lengths == {1} \cup ((SummaryLimit - 8)..(SummaryLimit + MaxOver))
    IN  {[fn |-> "summary", ticket_prefix |-> ticket_prefix,
          CW_TICKET_PREFIX |-> CW_TICKET_PREFIX,
          mapped_summary |-> mapped_summary,
          marker |-> marker, body |-> Repeat("n", n),
          summary_remove_strings |-> summary_remove_strings,
          done |-> FALSE, out |-> <<>>] :
            ticket_prefix \in {<<>>, <<"P", ":">>},
            CW_TICKET_PREFIX \in {<<"A", "l", "e", "r", "t", ":">>, <<>>},
            mapped_summary \in {<<>>, <<"m">>, Repeat("m", SummaryLimit + 1)},
            marker \in {<<>>, <<"x", "y">>},
            n \in Lengths,
            summary_remove_strings \in {<<>>, <<"x", "y">>, <<"q", ",", "x", "y">>}}

\* prefix = ticket_prefix or os.environ.get("CW_TICKET_PREFIX", "Alert:"),
\* then the summary of the ticket and of the cache key
EvalSummary ==
    /\ probe.fn = "summary" /\ ~probe.done
    /\ probe' = [probe EXCEPT
            !.done = TRUE,
            !.out = TicketSummary(Or(probe.ticket_prefix, probe.CW_TICKET_PREFIX),
                                  probe.mapped_summary, probe.marker \o probe.body,
                                  probe.summary_remove_strings)]
    /\ UNCHANGED pipeline

\* What the orchestrator decides before it turns to the cache: maintenance,
\* mapped values, alert type, final summary and board.
LiveDecisions(config, data, mapped_vals, clock) ==
    [maintenance |-> is_in_maintenance(config, clock),
     resolved |-> mapped_vals,
     alert_type |-> AlertType(ResolveStr(data, config.trigger_field),
                              Or(config.open_value, <<"0">>),
                              Or(config.close_value, <<"1">>)),
     ticket_summary |-> TicketSummary(config.ticket_prefix, Get(mapped_vals, "summary"),
                                      data.monitor_name,
                                      config.summary_remove_strings).ticket_summary,
     board |-> RuleLoop(config.routing_rules, data, 1, {}, 0,
                        [f \in RuleFields |->
                            IF f \in DOMAIN mapped_vals THEN mapped_vals[f]
                            ELSE config[f]]).fields.board]

\* dry_run_endpoint: the same steps as the route simulates them; its mapping
\* list has no severity and no impact, it collects the rules that match and
\* reads the board of the first, and it neither removes substrings from the
\* summary nor cuts it
dry_run_endpoint(config, data, mapped_vals, clock) ==
    LET resolved == [f \in DOMAIN mapped_vals \ {"severity", "impact"} |-> mapped_vals[f]]
        Matches(rule) == ReSearch(rule.regex, ResolveStr(data, rule.path))
        matched_rules == SelectSeq(config.routing_rules, Matches)
    IN  [maintenance |-> is_in_maintenance(config, clock),
         resolved |-> resolved,
         alert_type |-> AlertType(ResolveStr(data, config.trigger_field),
                                  config.open_value, config.close_value),
         ticket_summary |->
            config.ticket_prefix \o <<" ">> \o
                (IF Get(resolved, "summary") # <<>> THEN Get(resolved, "summary")
                 ELSE data.monitor_name),
         board |-> IF matched_rules # <<>> /\ "board" \in DOMAIN matched_rules[1].overrides
                   THEN matched_rules[1].overrides.board
                   ELSE IF "board" \in DOMAIN resolved THEN resolved.board
                   ELSE config.board]

\* one config and payload for the route and for the orchestrator: up to two
\* rules on the severity, a mapping of one field or of none, a display name
\* below or above the limit of the summary, a window that is active or none
DryRunProbes ==
    LET Rule(regex, f, value) ==
            [path |-> "sev", regex |-> regex, overrides |-> [x \in {f} |-> value]]
        RuleLists ==
            {<<>>,
             <<Rule(<<"i">>, "board", <<"R", 1>>)>>,
             <<Rule(<<"z">>, "board", <<"R", 1>>), Rule(<<"i">>, "board", <<"R", 2>>)>>,
             <<Rule(<<"i">>, "board", <<"R", 1>>), Rule(<<"i">>, "board", <<"R", 2>>)>>,
             <<Rule(<<"i">>, "priority", <<"R", 1>>), Rule(<<"i">>, "board", <<"R", 2>>)>>}
        Windows == {<<>>, <<Window("once", Iso(0), Iso(Day), {})>>}
    IN  {[fn |-> "dry_run",
          settings |-> [trigger_field |-> "status", open_value |-> <<"0">>,
                        close_value |-> <<"1">>, ticket_prefix |-> <<"P", ":">>,
                        board |-> <<"S">>, status |-> <<"S">>, ticket_type |-> <<"S">>,
                        subtype |-> <<"S">>, item |-> <<"S">>, priority |-> <<"S">>,
                        summary_remove_strings |-> removes,
                        routing_rules |-> rules, maintenance_windows |-> windows],
          payload |-> [status |-> status, sev |-> <<"i">>,
                       monitor_name |-> [i \in 1..n |-> "n"]],
          mapped_vals |-> [x \in mapped |-> <<"M">>],
          now |-> 1, done |-> FALSE, out |-> <<>>] :
            rules \in RuleLists, windows \in Windows,
            removes \in {<<>>, <<"n", "n">>},
            status \in {<<"0">>, <<"1">>, <<"5">>},
            n \in {3, SummaryLimit + MaxOver},
            mapped \in {{}, {"board"}, {"summary"}, {"severity"}}}

\* the answer of the dry run and the decisions of the orchestrator
EvalDryRun ==
    /\ probe.fn = "dry_run" /\ ~probe.done
    /\ probe' = [probe EXCEPT
            !.done = TRUE,
            !.out = [dry |-> dry_run_endpoint(probe.settings, probe.payload,
                                               probe.mapped_vals, probe.now),
                     live |-> LiveDecisions(probe.settings, probe.payload,
                                            probe.mapped_vals, probe.now)]]
    /\ UNCHANGED pipeline

MaxListed == 2      \* tickets in the ticketing system of a search

\* ConnectWiseClient.find_open_ticket on a ticketing system whose tickets
\* carry their summaries: the condition is closedFlag = false, a status that
\* is neither the closed one nor Cancelled, and "summary contains" the text;
\* pageSize 1 returns the first such ticket, None (0) when there is none
FindOpenTicketContaining(listed, summary_contains) ==
    LET Contains(summary) ==
            \E i \in 0..(Len(summary) - Len(summary_contains)) :
                SubSeq(summary, i + 1, i + Len(summary_contains)) = summary_contains
        hits == {i \in DOMAIN listed : ~listed[i].closedFlag /\ Contains(listed[i].summary)}
    IN  IF hits = {} THEN 0 ELSE CHOOSE i \in hits : \A j \in hits : i <= j

\* the ticket the UP branch passes to close_ticket (0: none): the cached id,
\* else the id of the ticket the search returns
UpTicketId(cached_val, listed, ticket_summary) ==
    IF cached_val # 0 THEN cached_val
    ELSE FindOpenTicketContaining(listed, ticket_summary)

\* an UP alert, the tickets of the ticketing system with their summaries
\* (a ticket's id is its place in the list) and the cache entry of the
\* alert's key: none, or a ticket that was opened under the alert's summary
UpProbes ==
    LET Summaries == {<<"P", ":", " ", "n">>, <<"P", ":", " ", "n", "n">>,
                      <<"Q", ":", " ", "n">>}
        Entries == {[summary |-> s, closedFlag |-> c] : s \in Summaries, c \in BOOLEAN}
        Lists == UNION {[1..n -> Entries] : n \in 0..MaxListed}
    IN  {p \in [fn : {"up"}, ticketing : Lists, cached_val : 0..MaxListed,
                 ticket_summary : Summaries \ {<<"Q", ":", " ", "n">>},
                 done : {FALSE}, out : {0}] :
            p.cached_val # 0 =>
                /\ p.cached_val \in DOMAIN p.ticketing
                /\ p.ticketing[p.cached_val].summary = p.ticket_summary}

\* the ticket of the UP branch
EvalUp ==
    /\ probe.fn = "up" /\ ~probe.done
    /\ probe' = [probe EXCEPT
            !.done = TRUE,
            !.out = UpTicketId(probe.cached_val, probe.ticketing, probe.ticket_summary)]
    /\ UNCHANGED pipeline

FnInit ==
    /\ InitWith(Deployment(0, 1, 0, 0, 0, 0, {}, {10}))
    /\ probe \in MaintenanceProbes \cup ClassifierProbes \cup TemplateProbes
                 \cup CreateTicketProbes \cup SnapshotProbes \cup RuleProbes
                 \cup SummaryProbes \cup DryRunProbes \cup UpProbes

FnNext ==
    \/ EvalMaintenance
    \/ EvalAlertType
    \/ EvalMapTemplate
    \/ EvalCreateTicket
    \/ EvalSnapshot
    \/ EvalRules
    \/ EvalSummary
    \/ EvalDryRun
    \/ EvalUp

FnSpec == FnInit /\ [][FnNext]_vars

------------------------------------------------------------------------------
\* Properties of the pipeline

\* the request id has work left: a message in the queue or a worker on it
Running(rid) ==
    \/ \E m \in queue : m.rid = rid
    \/ \E w \in Workers : task[w].rid = rid

\* the first rule with drop whose regex matches the payload of a request, 0
\* when there is none
DropRuleOf(rid) ==
    LET rules == Config.routing_rules
        hits == {i \in 1..Len(rules) :
                    /\ "drop" \in DOMAIN rules[i].overrides
                    /\ rules[i].overrides["drop"]
                    /\ ReSearch(rules[i].regex, ResolveStr(req[rid].payload, rules[i].path))}
    IN  IF hits = {} THEN 0 ELSE CHOOSE i \in hits : \A j \in hits : i <= j

GatewayCalls(rid) ==
    log[rid].find + log[rid].get + log[rid].create + log[rid].note + log[rid].close

\* C1: once the record of a request is processed, skipped or dlq, no step of
\* the pipeline (a retry, a redelivery of the same request id, the DLQ
\* marking) changes its status again.
C1_TerminalStatusIsFinal ==
    [][\A rid \in RequestIds :
         rec[rid].status \in Terminal => rec'[rid].status = rec[rid].status]_vars

\* C2: when a routing rule with drop matches, the rules after it are not
\* evaluated, no gateway call is made for the request, and the attempt leaves
\* the record skipped (the record stays so unless the request id is delivered
\* again).
C2_DropSkipsWithoutGatewayCalls ==
    \A rid \in RequestIds :
        (req[rid] # NoRequest /\ DropRuleOf(rid) # 0 /\ log[rid].evaluated # {}) =>
            /\ log[rid].evaluated = 1..DropRuleOf(rid)
            /\ GatewayCalls(rid) = 0
            /\ hist.redeliveries = 0 =>
                 /\ rec[rid].status = "skipped"
                 /\ rec[rid].matched_rule = DropRuleOf(rid)

\* a request was dropped by a rule that has a rule before it and one after it
C2_Witness ==
    \E rid \in RequestIds :
        /\ req[rid] # NoRequest
        /\ DropRuleOf(rid) \in 2..(Len(Config.routing_rules) - 1)
        /\ log[rid].evaluated # {}
        /\ rec[rid].status = "skipped"
        /\ ~Running(rid)

\* the payload of the request is a DOWN alert that no rule drops
DownAlert(rid) ==
    /\ req[rid] # NoRequest
    /\ ResolveStr(req[rid].payload, Config.trigger_field) = <<"0">>
    /\ DropRuleOf(rid) = 0

\* the payload of the request is an UP alert that no rule drops
UpAlert(rid) ==
    /\ req[rid] # NoRequest
    /\ ResolveStr(req[rid].payload, Config.trigger_field) = <<"1">>
    /\ DropRuleOf(rid) = 0

\* the run so far was sequential and undisturbed, and a and b are the first
\* and the second request processed in it
FirstTwo(a, b) ==
    /\ hist.clean
    /\ Len(hist.order) >= 2
    /\ hist.order[1] = a
    /\ hist.order[2] = b

C4_UpClosesAndDeletesBothEntries ==
    \A w \in Workers :
        (/\ hist.clean
         /\ task[w].alert = "UP" /\ task[w].pc = "finalize"
         /\ task[w].action = "close"
         /\ log[task[w].rid].find = 0) =>
            /\ log[task[w].rid].close = 1
            /\ tickets[task[w].tid] = "closed"
            /\ cache[CacheKey(req[task[w].rid].payload)] = 0
            /\ ~viable[CacheKey(req[task[w].rid].payload)]

\* the run so far was sequential and undisturbed, and request d was processed
\* right after request u
Consecutive(u, d) ==
    /\ hist.clean
    /\ \E j \in 1..(Len(hist.order) - 1) : hist.order[j] = u /\ hist.order[j + 1] = d

\* the UP alert u found its ticket in the cache and closed it
ClosedCached(u) ==
    /\ UpAlert(u)
    /\ rec[u].status = "processed"
    /\ rec[u].action = "close"
    /\ log[u].find = 0 /\ log[u].close = 1

C6_CacheHoldsNoClosedTicket ==
    (\A w \in Workers : task[w].pc = "idle") =>
        \A k \in Keys : cache[k] \notin hist.confirmedClosed

C8_BackoffGrows ==
    [][\A w \in Workers :
         (task[w].pc = "wrapper" /\ task'[w].pc = "idle" /\ hist' = hist) =>
            \A m \in queue' \ queue :
                /\ m.rid = task[w].rid
                /\ task[w].retries < max_retries
                /\ m.retries = task[w].retries + 1
                /\ 8 * Pow2(task[w].retries) <= m.delay
                /\ m.delay <= 12 * Pow2(task[w].retries)
                /\ m.delay > task[w].delay]_vars

\* the fifth retry of a request is scheduled
C8_Witness ==
    \E m \in queue : m.retries = max_retries /\ m.delay >= 8 * 16

\* C9: every enqueued request ends with a record in a terminal status: once
\* nothing is left to run for it (no message queued, no worker on it), its
\* record is processed, skipped or dlq, wherever its attempts failed.
C9_FinishedRequestHasTerminalRecord ==
    \A rid \in RequestIds :
        (req[rid] # NoRequest /\ log[rid].attempts > 0 /\ ~Running(rid)) =>
            rec[rid].status \in Terminal

\* C10: an attempt in which findOpenTicket, createTicket or closeTicket failed
\* goes on as an exception: its next step is the except block and then the
\* wrapper, and it never finalises the record as processed.
C10_GatewayFailureRaises ==
    \A w \in Workers :
        task[w].failedCall \in {"find", "create", "close"} =>
            task[w].pc \in {"except", "wrapper"}

\* the WebhookLog rows stored under a request id
Rows(rid) ==
    (IF rec[rid].status # "none" THEN {1} ELSE {}) \cup
    (IF dup[rid].status # "none" THEN {2} ELSE {})

\* C11: whatever the retries and redeliveries, two workers on the same request
\* id at the same time included, a request id has at most one WebhookLog row.
C11_OneRecordPerRequest ==
    \A rid \in RequestIds : Cardinality(Rows(rid)) <= 1

\* no failure, no redelivery, no TTL expiry and no ticket closed by anybody
Undisturbed ==
    /\ hist.faults = 0 /\ hist.redeliveries = 0 /\ hist.env = 0
    /\ \A t \in TicketIds : tickets[t] # "closed"

\* C12: of two DOWN requests on one cache key, when the second read the cache
\* or searched the ticketing system after the first had written the cache
\* entry, at most one of them called create_ticket (nothing else disturbing
\* the run).
C12_NoSecondCreateAfterCacheWrite ==
    \A a, b \in RequestIds :
        (/\ a # b /\ DownAlert(a) /\ DownAlert(b)
         /\ Undisturbed
         /\ a \in log[b].after) =>
            ~(log[a].create > 0 /\ log[b].create > 0)

\* two requests that read and searched before either wrote both created a
\* ticket, and a third one that came after their writes created none
C12_Witness ==
    \E a, b, c \in RequestIds :
        /\ a # b /\ a # c /\ b # c
        /\ DownAlert(a) /\ DownAlert(b) /\ DownAlert(c)
        /\ Undisturbed
        /\ a \notin log[b].after /\ b \notin log[a].after
        /\ log[a].create = 1 /\ log[b].create = 1
        /\ {a, b} \subseteq log[c].after
        /\ log[c].create = 0 /\ rec[c].status = "processed"

\* A window is active as the contract of the evaluator defines it: a once
\* window when start <= now <= end; a daily window, and a weekly window on a
\* day it lists, when start <= now-time <= end if start < end, and when
\* now-time >= start or now-time <= end if start >= end.
Active(window, t) ==
    \/ /\ window.type = "once"
       /\ window.start.kind = "iso" /\ window.end.kind = "iso"
       /\ window.start.at <= t /\ t <= window.end.at
    \/ /\ window.type \in {"daily", "weekly"}
       /\ window.type = "weekly" => Weekday(t) \in window.days
       /\ ReadsAsTime(window.start) /\ ReadsAsTime(window.end)
       /\ IF TimeAt(window.start) < TimeAt(window.end)
          THEN TimeAt(window.start) <= TimeOfDay(t) /\ TimeOfDay(t) <= TimeAt(window.end)
          ELSE TimeOfDay(t) >= TimeAt(window.start) \/ TimeOfDay(t) <= TimeAt(window.end)

SomeWindowActive(windows, t) == \E i \in DOMAIN windows : Active(windows[i], t)

\* C13: an attempt that passes the maintenance check while a window of the
\* configuration is active marks its record skipped and ends: no gateway
\* call, no cache access, no rule evaluated, no ticket.
C13_MaintenanceSkipsWithoutCalls ==
    [][\A w \in Workers :
        (/\ task[w].pc = "prepare" /\ task'[w].pc # "prepare" /\ hist' = hist
         /\ SomeWindowActive(Config.maintenance_windows, now)) =>
            /\ (IF task[w].row = 2 THEN dup'[task[w].rid] ELSE rec'[task[w].rid]).status
                    = "skipped"
            /\ task'[w] = Idle
            /\ log' = log /\ cache' = cache /\ viable' = viable /\ tickets' = tickets]_vars

\* C14: is_in_maintenance answers True exactly when at least one window of the
\* list is active at the instant.
C14_TrueIffSomeWindowActive ==
    (probe.fn = "is_in_maintenance" /\ probe.done) =>
        (probe.out <=> SomeWindowActive(probe.windows, probe.now))

\* the entries of a list, whatever their order
Entries(list) == {list[i] : i \in DOMAIN list}

\* C15: the alert type is DOWN when the trigger value is one of the entries of
\* the open-value list, UP when it is none of them and one of the entries of
\* the close-value list, GENERIC otherwise, whatever the order and the
\* padding of the entries.
C15_AlertTypeByExactMembership ==
    (probe.fn = "alert_type" /\ probe.done) =>
        probe.out = IF probe.val \in Entries(probe.open) THEN "DOWN"
                    ELSE IF probe.val \in Entries(probe.close) THEN "UP"
                    ELSE "GENERIC"

\* "0" against the padded open list " 2 , 0 " and the close list " 1 "
C15_Witness ==
    /\ probe.fn = "alert_type" /\ probe.done
    /\ probe.open = << <<"2">>, <<"0">> >> /\ probe.close = << <<"1">> >>
    /\ probe.pad /\ probe.val = <<"0">>
    /\ probe.out = "DOWN"

\* the variable of the template resolves to a value that is not empty
VariableResolved(data, tok) ==
    IsVariable(tok) /\ tok \in DOMAIN data /\ data[tok] # <<>>

\* the literal tokens and the values of the resolved variables, in the order
\* of the template
RECURSIVE Surviving(_, _)
Surviving(tokens, data) ==
    IF Len(tokens) = 0 THEN <<>>
    ELSE (IF ~IsVariable(Head(tokens)) THEN <<Head(tokens)>>
          ELSE IF VariableResolved(data, Head(tokens)) THEN <<data[Head(tokens)]>>
          ELSE <<>>)
         \o Surviving(Tail(tokens), data)

TenantResolved ==
    /\ probe.fn = "create_ticket" /\ probe.done
    /\ "customer_id" \notin DOMAIN probe.mapped_vals /\ probe.tag = <<>>
    /\ probe.config.global_routing_enabled /\ probe.data.tenant # <<>>

\* C17: the tenant resolution asks the exact match first, the wildcard match
\* only when there is no exact one, the company directory and the LLM only
\* when neither matched, and the company is that of the first strategy that
\* hit, the static default when none produced a company id.
C17_TenantStrategiesInOrder ==
    TenantResolved =>
        LET rows == probe.env.mappings
            tenant == probe.data.tenant
            exact == {i \in DOMAIN rows : rows[i].tenant_value = tenant}
            wildcard == {i \in DOMAIN rows :
                            /\ \E k \in DOMAIN rows[i].tenant_value :
                                    rows[i].tenant_value[k] \in {"*", "?"}
                            /\ fnmatch(tenant, rows[i].tenant_value)}
            answer == Strip(probe.env.llm_resp)
            answered == /\ answer # <<"N", "O", "N", "E">>
                        /\ \E k \in DOMAIN probe.env.companies :
                                probe.env.companies[k] = answer
            default == probe.config.customer_id_default
            OrDefault(c) == IF c # <<>> THEN c ELSE default
        IN  IF exact # {} THEN
                /\ probe.out.calls = <<"exact">>
                /\ probe.out.company_id = OrDefault(rows[First(exact)].company_id)
            ELSE IF wildcard # {} THEN
                /\ probe.out.calls = <<"exact", "wildcard">>
                /\ probe.out.company_id = OrDefault(rows[First(wildcard)].company_id)
            ELSE IF probe.env.companies # <<>> THEN
                /\ probe.out.calls = <<"exact", "wildcard", "get_companies", "call_llm">>
                /\ probe.out.company_id =
                        IF answered THEN answer ELSE default
            ELSE
                /\ probe.out.calls = <<"exact", "wildcard", "get_companies">>
                /\ probe.out.company_id = default

\* no row matches the tenant, the LLM names a company of the directory
C17_Witness ==
    /\ TenantResolved
    /\ probe.data.tenant = <<"z", "z">> /\ Len(probe.env.mappings) = 1
    /\ probe.env.llm_resp = <<"X">> /\ probe.config.customer_id_default = <<"D">>
    /\ probe.out.calls = <<"exact", "wildcard", "get_companies", "call_llm">>
    /\ probe.out.company_id = <<"X">>

\* C18: for every field a matching routing rule overrides, create_ticket is
\* passed the value of the rule (the customer id as its company_id).
C18_RuleOverrideReachesCreateTicket ==
    (probe.fn = "create_ticket" /\ probe.done) =>
        \A f \in overridable_fields :
            LET rule == probe.config.routing_rules[1]
            IN  (f \in DOMAIN rule.overrides /\ ReSearch(rule.regex, probe.data[rule.path]))
                    => probe.out[IF f = "customer_id" THEN "company_id" ELSE f]
                            = rule.overrides[f]

\* C20: without a mapped customer id, the company id tagged in the display
\* name as #CW<id> or #CW-<id> is the one passed to create_ticket, the tenant
\* resolution is not consulted; the static board is passed when neither a
\* mapping nor a rule sets it.
C20_TaggedCompanyAndStaticBoard ==
    (probe.fn = "create_ticket" /\ probe.done) =>
        /\ ("customer_id" \notin DOMAIN probe.mapped_vals /\ probe.tag # <<>>) =>
                probe.out.company_id = probe.tag /\ probe.out.calls = <<>>
        /\ (/\ "board" \notin DOMAIN probe.mapped_vals
            /\ "board" \notin DOMAIN probe.config.routing_rules[1].overrides) =>
                probe.out.board = probe.config.board

\* a display name tagged #CW-7 while a TenantMap row matches the tenant and
\* the config has a default company
C20_Witness ==
    /\ probe.fn = "create_ticket" /\ probe.done
    /\ probe.data.monitor_name = <<"S", "#", "C", "W", "-", "7", " ", "x">>
    /\ "customer_id" \notin DOMAIN probe.mapped_vals
    /\ probe.config.global_routing_enabled
    /\ probe.data.tenant = <<"a", "b">> /\ Len(probe.env.mappings) = 2
    /\ probe.config.customer_id_default = <<"D">>
    /\ probe.out.company_id = <<"7">> /\ probe.out.board = <<"S">>

\* C19: a worker that took its message while the endpoint was disabled makes
\* no call to the ticketing gateway, and no worker calls it for an endpoint
\* that did not exist when the message was taken.
C19_NoGatewayCallForDisabledEndpoint ==
    [][\A w \in Workers, rid \in RequestIds :
          (/\ task[w].rid = rid
           /\ task'[w] # task[w]
           /\ \E op \in {"find", "get", "create", "note", "close"} :
                  log'[rid][op] > log[rid][op])
          => task[w].enabled]_vars

\* the positions of the entries that lead from a value to each value in it
RECURSIVE PathsOf(_)
PathsOf(value) ==
    {<<>>} \cup UNION {{<<i>> \o p : p \in PathsOf(value.items[i].v)} :
                            i \in DOMAIN value.items}

RECURSIVE ValueAt(_, _)
ValueAt(value, path) ==
    IF path = <<>> THEN value ELSE ValueAt(value.items[Head(path)].v, Tail(path))

\* the keys met on the way (none for the position in a list)
RECURSIVE KeysAlong(_, _)
KeysAlong(value, path) ==
    IF path = <<>> THEN <<>>
    ELSE <<value.items[Head(path)].k>>
            \o KeysAlong(value.items[Head(path)].v, Tail(path))

\* the name of the key contains one of the words, in any letter case
SecretKey(k) ==
    \E word \in sensitive_keys, from \in 1..Len(k) :
        /\ from + Len(word) - 1 <= Len(k)
        /\ LowerStr(SubSeq(k, from, from + Len(word) - 1)) = word

\* no key on the way to the value is secret: the value is in the open
InTheOpen(value, path) ==
    \A i \in DOMAIN KeysAlong(value, path) : ~SecretKey(KeysAlong(value, path)[i])

\* the value is held under a secret key, reached through keys that are not
HeldSecret(value, path) ==
    /\ path # <<>>
    /\ InTheOpen(value, SubSeq(path, 1, Len(path) - 1))
    /\ SecretKey(KeysAlong(value, path)[Len(path)])

\* what is in the open in a is in the open in b, with the same kind, the
\* same keys in the same order and, for a scalar, the same text
OpenPartWithin(a, b) ==
    \A p \in PathsOf(a) :
        InTheOpen(a, p) =>
            /\ p \in PathsOf(b)
            /\ ValueAt(b, p).t = ValueAt(a, p).t
            /\ ValueAt(b, p).v = ValueAt(a, p).v
            /\ Len(ValueAt(b, p).items) = Len(ValueAt(a, p).items)
            /\ \A i \in DOMAIN ValueAt(a, p).items :
                    ValueAt(b, p).items[i].k = ValueAt(a, p).items[i].k

DifferOnlyInSecrets(a, b) == OpenPartWithin(a, b) /\ OpenPartWithin(b, a)

\* each value held under a secret key reads "***", the rest is as it was
Masked(value, snapshot) ==
    /\ OpenPartWithin(value, snapshot)
    /\ \A p \in PathsOf(value) :
            HeldSecret(value, p) => ValueAt(snapshot, p) = Scalar("***")

\* C21: two requests whose payloads and headers differ only in the values
\* held under keys whose name contains password, secret, token, key, auth,
\* authorization or bearer (in any letter case, at any depth, in dicts and
\* lists) store the same snapshot; in a snapshot each such value reads "***"
\* and every other value is unchanged.
C21_SnapshotIndependentOfSecrets ==
    (probe.fn = "snapshot" /\ probe.done) =>
        /\ Masked(probe.data, probe.out[1].payload)
        /\ Masked(probe.other, probe.out[2].payload)
        /\ probe.headers.items # <<>> => Masked(probe.headers, probe.out[1].headers)
        /\ DifferOnlyInSecrets(probe.data, probe.other)
                => probe.out[1].payload = probe.out[2].payload
        /\ (/\ DifferOnlyInSecrets(probe.headers, probe.other_headers)
            /\ probe.headers.items # <<>>)
                => probe.out[1].headers = probe.out[2].headers

C21_Witness ==
    /\ probe.fn = "snapshot" /\ probe.done
    /\ probe.data # probe.other
    /\ DifferOnlyInSecrets(probe.data, probe.other)
    /\ probe.headers # probe.other_headers
    /\ DifferOnlyInSecrets(probe.headers, probe.other_headers)
    /\ \E p \in PathsOf(probe.data) :
            /\ Len(p) > MaxDepth
            /\ HeldSecret(probe.data, p)
            /\ ValueAt(probe.data, p).t = "dict"
            /\ ValueAt(probe.other, p).t = "str"

\* the row worker w holds, as the step leaves it
RowAfter(w) == IF task[w].row = 2 THEN dup'[task[w].rid] ELSE rec'[task[w].rid]

\* the step is one of the attempt of worker w, not the death of the worker
StepOf(w) == task'[w] # task[w] /\ hist'.redeliveries = hist.redeliveries

\* what the get_ticket of the attempt has shown: nothing yet, a failure, the
\* ticket closed (closed flag set, or a status name among Completed,
\* Cancelled, Closed, the configured closed status and the close-status of
\* the config), or the ticket open
Shown(ticket_data) ==
    IF ~ticket_data.asked THEN ""
    ELSE IF ~ticket_data.found THEN "None"
    ELSE IF \/ ticket_data.closedFlag
            \/ ticket_data.status \in {"Completed", "Cancelled", "Closed", "Resolved"}
         THEN "closed"
    ELSE "open"

C23_ViabilityFlagOnlyAfterOpenVerification ==
    [][/\ \A w \in Workers :
            LET rid == task[w].rid
            IN  (task[w].pc # "idle" /\ StepOf(w) /\ log'[rid].flagged > log[rid].flagged)
                    => /\ req[rid].kind = "normal"
                       /\ Shown(task[w].ticket_data) = "open"
                       /\ log[rid].verify = "open"
                       /\ task[w].tid # 0 /\ task[w].action = ""
       /\ \A k \in Keys :
            (viable'[k] /\ ~viable[k])
                => \E r \in RequestIds :
                        /\ log'[r].flagged > log[r].flagged
                        /\ CacheKey(req[r].payload) = k]_vars

\* the second alert has verified the cached ticket and written the flag
C23_Witness ==
    \E r \in RequestIds :
        /\ req[r].kind = "normal"
        /\ log[r].flagged = 1 /\ log[r].verify = "open" /\ log[r].get = 1
        /\ viable[CacheKey(req[r].payload)]
        /\ rec[r].status = "processed" /\ rec[r].action = "update"

C26_SearchHitIsCachedAndNoted ==
    [][\A w \in Workers :
          LET rid == task[w].rid
              k == CacheKey(req[rid].payload)
          IN  (task[w].pc # "idle" /\ StepOf(w) /\ task'[w].pc # "except") =>
                /\ task[w].pc = "find"
                    => /\ log'[rid].find = log[rid].find + 1
                       /\ task'[w].tid # 0 => tickets[task'[w].tid] = "open"
                       /\ task'[w].pc = IF task'[w].tid # 0 THEN "note_found" ELSE "create"
                /\ task[w].pc = "note_found"
                    => /\ log'[rid].note = log[rid].note + 1
                       /\ task'[w].pc = "set_cache_found" /\ task'[w].tid = task[w].tid
                /\ task[w].pc = "set_cache_found"
                    => /\ cache'[k] = task[w].tid
                       /\ task'[w].pc = "idle"
                       /\ RowAfter(w).status = "processed"
                       /\ RowAfter(w).action = "update"
                       /\ RowAfter(w).ticket_id = task[w].tid
                /\ log'[rid].create > log[rid].create
                    => /\ task[w].pc = "create" /\ task[w].tid = 0
                       /\ log[rid].find > 0
                /\ task[w].pc = "set_cache_new"
                    => cache'[k] = task[w].tid /\ task[w].tid # 0]_vars

\* an alert missed the cache, found the open ticket of an earlier alert in
\* the ticketing system, noted and cached it
C26_Witness ==
    \E r \in RequestIds :
        /\ log[r].attempts = 1 /\ log[r].get = 0 /\ log[r].find = 1
        /\ log[r].note = 1 /\ log[r].create = 0 /\ log[r].wrote
        /\ rec[r].status = "processed" /\ rec[r].action = "update"
        /\ tickets[rec[r].ticket_id] = "open"
        /\ cache[CacheKey(req[r].payload)] = rec[r].ticket_id

\* C27: an UP alert that finds a ticket neither in the cache nor by the search
\* is a no-op: the search step goes on to the finalisation without raising,
\* close_ticket is called only for a candidate ticket, and the finalisation
\* leaves the record processed with no action and no ticket id, the cache and
\* the queue (no retry) unchanged.
C27_UpWithoutCandidateIsNoOp ==
    [][\A w \in Workers :
          LET rid == task[w].rid
          IN  (StepOf(w) /\ task[w].alert = "UP") =>
                /\ (task[w].pc = "up_find" /\ task'[w].tid = 0)
                    => /\ task'[w].pc = "finalize" /\ task'[w].exc = ""
                       /\ cache' = cache /\ queue' = queue
                       /\ rec' = rec /\ dup' = dup
                       /\ log'[rid].close = log[rid].close
                /\ log'[rid].close > log[rid].close => task[w].tid # 0
                /\ (task[w].pc = "finalize" /\ task[w].tid = 0 /\ task'[w].pc # "except")
                    => /\ task'[w].pc = "idle"
                       /\ RowAfter(w).status = "processed"
                       /\ RowAfter(w).action = ""
                       /\ RowAfter(w).ticket_id = 0
                       /\ RowAfter(w).error_message = Row(w).error_message
                       /\ cache' = cache /\ queue' = queue
                       /\ log'[rid].close = log[rid].close]_vars

\* an UP alert searched, found nothing and was finalised without a call of
\* close_ticket
C27_Witness ==
    \E r \in RequestIds :
        /\ req[r].kind = "normal" /\ log[r].attempts = 1
        /\ log[r].find = 1 /\ log[r].close = 0
        /\ rec[r].status = "processed" /\ rec[r].action = "" /\ rec[r].ticket_id = 0
        /\ \A w \in Workers : task[w].rid # r
        /\ \A m \in queue : m.rid # r

\* C28: whenever a step of an attempt raises while the record of the request
\* exists, the exception reaches the retry wrapper with the record in status
\* failed and holding the message of that exception; and no attempt that ends
\* in the wrapper leaves the record in processing.
C28_RaisingAttemptMarksRecordFailed ==
    [][\A w \in Workers :
          LET rid == task'[w].rid
          IN  /\ (StepOf(w) /\ task[w].pc # "wrapper" /\ task'[w].pc = "wrapper"
                    /\ rec[rid].status # "none")
                  => /\ rec'[rid].status = "failed" \/ dup'[rid].status = "failed"
                     /\ task'[w].exc \in {rec'[rid].error_message, dup'[rid].error_message}
              /\ (StepOf(w) /\ task[w].pc = "wrapper" /\ rec[task[w].rid].status # "none")
                  => rec'[task[w].rid].status # "processing"]_vars

\* C29: the first step of every attempt, first delivery and retry alike,
\* leaves the record of the request in status processing, and the record is
\* in processing while the attempt consults the maintenance windows, the
\* rules, the cache or the gateway.
C29_EveryAttemptStartsInProcessing ==
    [][\A w \in Workers :
          StepOf(w) =>
            /\ task[w].pc = "upsert"
                => (IF task'[w].row = 2 THEN dup'[task[w].rid]
                    ELSE rec'[task[w].rid]).status = "processing"
            /\ task[w].pc \notin {"idle", "upsert", "except", "wrapper"}
                => Row(w).status = "processing"]_vars

\* C30: whenever a step of an attempt commits the record as processed after a
\* ticket was created, noted or closed, the record holds the id of that
\* ticket, the action create, update or close, and the processing time
\* measured by this attempt, on the cache-hit and search-hit update paths as
\* on the create and close paths.
C30_ProcessedRecordHoldsTicketActionAndTime ==
    [][\A w \in Workers :
          (/\ StepOf(w) /\ task[w].pc \notin {"idle", "upsert"}
           /\ task'[w].pc = "idle"
           /\ RowAfter(w).status = "processed"
           /\ RowAfter(w).action # "")
          => /\ RowAfter(w).ticket_id = task[w].tid /\ task[w].tid # 0
             /\ RowAfter(w).action =
                    (IF task[w].pc = "finalize" THEN task[w].action ELSE "update")
             /\ RowAfter(w).processing_time = Elapsed(w)]_vars

\* C31: the routing rules are evaluated in list order, all of them when none
\* drops, and the value of each field after the loop is the override of the
\* last rule that matches and sets the field; with no such rule the field
\* keeps the value it had before the loop.
C31_LastMatchingRuleWins ==
    (probe.fn = "rules" /\ probe.done) =>
        /\ probe.out.drop = 0
        /\ probe.out.evaluated = DOMAIN probe.rules
        /\ \A f \in RuleFields :
            LET setters == {i \in DOMAIN probe.rules :
                             /\ probe.rules[i].regex = <<"i">>
                             /\ f \in DOMAIN probe.rules[i].overrides}
            IN  probe.out.fields[f] =
                    IF setters = {} THEN probe.fields[f]
                    ELSE LET last == CHOOSE i \in setters : \A j \in setters : j <= i
                         IN  probe.rules[last].overrides[f]

\* two matching rules set the board, a later rule that does not match sets
\* it too, and the second value is in force
C31_Witness ==
    /\ probe.fn = "rules" /\ probe.done /\ Len(probe.rules) = 3
    /\ \A i \in 1..3 : "board" \in DOMAIN probe.rules[i].overrides
    /\ probe.rules[1].regex = <<"i">> /\ probe.rules[2].regex = <<"i">>
    /\ probe.rules[3].regex = <<"z">>
    /\ probe.out.fields.board = <<"R", 2>>
    /\ probe.out.fields.priority = <<"S">>

\* C32: a window entry the evaluator cannot read counts as not active and is
\* skipped on its own: with such an entry in the list, is_in_maintenance still
\* answers True exactly when a readable window of the list, before or after
\* the entry, is active.
C32_MalformedWindowSkippedOnItsOwn ==
    (/\ probe.fn = "is_in_maintenance" /\ probe.done
     /\ \E i \in DOMAIN probe.windows : WindowRaises(probe.windows[i], probe.now))
    => (probe.out <=> \E j \in DOMAIN probe.windows :
                        /\ ~WindowRaises(probe.windows[j], probe.now)
                        /\ Active(probe.windows[j], probe.now))

\* C33: the configuration never fails a request: the step that reads the
\* maintenance windows, the mapping and the routing rules enters the except
\* clause only when a collaborator failed at that step, so the configuration
\* alone leaves no record failed or dlq and causes no retry.
C33_ConfigurationErrorNeverFailsRequest ==
    [][\A w \in Workers :
          (StepOf(w) /\ task[w].pc = "prepare" /\ task'[w].pc = "except")
              => hist'.faults > hist.faults]_vars

\* C34: when the resolution falls back on the company directory and the LLM,
\* the company id is the answer of the LLM, surrounding blanks apart, only if
\* the directory returned identifiers, the answer is one of them and is not
\* NONE; a failed fetch (no identifiers: the LLM is not asked), a failed call
\* (no answer) and any other answer yield the default company id.
C34_LlmAnswerOnlyIfOffered ==
    (/\ probe.fn = "create_ticket" /\ probe.done
     /\ \E i \in DOMAIN probe.out.calls : probe.out.calls[i] = "get_companies")
    => LET offered == {probe.env.companies[k] : k \in DOMAIN probe.env.companies}
           answer == Strip(probe.env.llm_resp)
           asked == \E i \in DOMAIN probe.out.calls : probe.out.calls[i] = "call_llm"
       IN  /\ asked <=> offered # {}
           /\ probe.out.company_id =
                 IF answer \in offered /\ answer # <<"N", "O", "N", "E">>
                 THEN answer
                 ELSE probe.config.customer_id_default

\* the LLM answered with an offered identifier followed by a blank, and the
\* identifier is the company of the ticket
C34_Witness ==
    /\ probe.fn = "create_ticket" /\ probe.done
    /\ probe.env.llm_resp = <<"X", " ">>
    /\ probe.out.calls = <<"exact", "wildcard", "get_companies", "call_llm">>
    /\ probe.out.company_id = <<"X">>
    /\ probe.config.customer_id_default = <<"D">>

\* C35 as stated: the tenant resolution calls a collaborator (TenantMap
\* lookup, company directory, LLM) only when tenant routing is enabled for
\* the config and no company id comes from the customer_id mapping, from a
\* #CW tag in the display name or from the default company id of the config.
C35_TenantResolverOnlyWithoutDirectCompany ==
    (probe.fn = "create_ticket" /\ probe.done /\ probe.out.calls # <<>>)
    => /\ probe.config.global_routing_enabled
       /\ Get(probe.mapped_vals, "customer_id") = <<>>
       /\ probe.tag = <<>>
       /\ probe.config.customer_id_default = <<>>

\* C35: the tenant resolution calls a collaborator only when tenant routing
\* is enabled for the config, the payload names a tenant and no company id
\* comes from the customer_id mapping or from a #CW tag in the display name;
\* the default company id of the config does not keep it from running, it is
\* what the ticket gets when the resolution finds nothing.
C35_TenantResolverOnlyWithoutMappedOrTaggedCompany ==
    (probe.fn = "create_ticket" /\ probe.done /\ "tag" \in DOMAIN probe)
    => LET direct == Get(probe.mapped_vals, "customer_id") # <<>> \/ probe.tag # <<>>
       IN  /\ probe.out.calls # <<>>
                <=> /\ probe.config.global_routing_enabled
                    /\ ~direct
                    /\ probe.data.tenant # <<>>
           /\ (probe.out.calls = <<>> /\ ~direct)
                => probe.out.company_id = probe.config.customer_id_default

\* a config with a default company id and tenant routing: the TenantMap is
\* asked and its company, not the default, is the company of the ticket
C35_Witness ==
    /\ probe.fn = "create_ticket" /\ probe.done
    /\ probe.config.customer_id_default = <<"D">>
    /\ probe.config.global_routing_enabled
    /\ probe.out.calls = <<"exact">>
    /\ probe.out.company_id = <<"E">>

\* the summary before the cut, as the probe is built: the marker is the only
\* text a configured substring removes
Uncut(subject) ==
    LET prefix == Or(probe.ticket_prefix, probe.CW_TICKET_PREFIX)
        kept == IF probe.summary_remove_strings # <<>> /\ subject = probe.marker \o probe.body
                THEN probe.body ELSE subject
    IN  IF prefix # <<>> THEN prefix \o <<" ">> \o kept ELSE kept

\* the cut of C36: at most 99 characters are kept as they are, more are cut
\* to 96 characters and three dots
CutTo99(uncut) ==
    /\ Len(probe.out.ticket_summary) <= SummaryLimit
    /\ Len(uncut) <= SummaryLimit => probe.out.ticket_summary = uncut
    /\ Len(uncut) > SummaryLimit =>
            /\ Len(probe.out.ticket_summary) = SummaryLimit
            /\ \A i \in 1..SummaryLimit :
                    probe.out.ticket_summary[i] =
                        IF i <= SummaryLimit - 3 THEN uncut[i] ELSE "."

\* C36 as stated: the summary is the mapped summary value when the mapping
\* resolved and otherwise the prefix followed by the display name; the
\* configured substrings removed, a summary of more than 99 characters is cut
\* to 99 characters ending in an ellipsis and a shorter one is kept.
C36_SummaryIsMappedValueOrPrefixedName ==
    (probe.fn = "summary" /\ probe.done) =>
        CutTo99(IF probe.mapped_summary # <<>> THEN probe.mapped_summary
                ELSE Uncut(probe.marker \o probe.body))

\* C36: the summary is the prefix followed by the mapped summary value when
\* the mapping resolved and by the display name otherwise (without a prefix,
\* the value or the name alone); the configured substrings removed, a summary
\* of more than 99 characters is cut to 99 characters ending in an ellipsis
\* and a shorter one is kept.
C36_SummaryIsPrefixedAndCut ==
    (probe.fn = "summary" /\ probe.done) =>
        CutTo99(Uncut(IF probe.mapped_summary # <<>> THEN probe.mapped_summary
                      ELSE probe.marker \o probe.body))

\* a display name that makes a summary of 100 characters once the marker is
\* removed: 96 of them and three dots are left
C36_Witness ==
    /\ probe.fn = "summary" /\ probe.done
    /\ probe.mapped_summary = <<>> /\ probe.marker # <<>>
    /\ probe.summary_remove_strings # <<>>
    /\ Len(probe.out.removed) = SummaryLimit + 1
    /\ Len(probe.out.ticket_summary) = SummaryLimit
    /\ probe.out.ticket_summary[SummaryLimit - 3] = "n"
    /\ probe.out.ticket_summary[SummaryLimit] = "."

\* C37: for the same config and payload at the same instant the dry run
\* reports the maintenance decision of the orchestrator and, when no window
\* is active, the same mapped values, alert type, final summary and board.
C37_DryRunAgreesWithPipeline ==
    (probe.fn = "dry_run" /\ probe.done) =>
        /\ probe.out.dry.maintenance = probe.out.live.maintenance
        /\ ~probe.out.live.maintenance =>
            /\ DOMAIN probe.out.dry.resolved = DOMAIN probe.out.live.resolved
            /\ probe.out.dry.alert_type = probe.out.live.alert_type
            /\ probe.out.dry.ticket_summary = probe.out.live.ticket_summary
            /\ probe.out.dry.board = probe.out.live.board

\* the tickets created for the request of the attempt that are open
OwnOpenTickets(w) == {t \in log[task[w].rid].created : tickets[t] = "open"}

\* C38: an attempt that searches the ticketing system while a ticket created
\* for its own request id is open goes on to add a note to a ticket; it does
\* not go on to create_ticket.
C38_OpenTicketOfRequestIsFoundNotCreatedAgain ==
    [][\A w \in Workers :
        (StepOf(w) /\ task[w].pc = "find" /\ OwnOpenTickets(w) # {}) =>
            task'[w].pc = "note_found"]_vars

\* C39: the ticket an UP alert passes to close_ticket carries the final
\* summary of the alert.
C39_UpClosesOnlyTicketOfOwnSummary ==
    (probe.fn = "up" /\ probe.done /\ probe.out # 0) =>
        probe.ticketing[probe.out].summary = probe.ticket_summary

\* C40: a step of an UP attempt deletes the ticket-id cache entry or sets the
\* record's action to close only after close_ticket returned True for the
\* ticket of the attempt; the failing close_ticket call and every later step
\* of that attempt leave both cache entries and the record's action as they
\* are.
C40_UpDeletesAndRecordsCloseOnlyOnSuccess ==
    [][\A w \in Workers :
        (StepOf(w) /\ task[w].alert = "UP") =>
            LET rid == task[w].rid
                k == CacheKey(req[rid].payload)
                deleted == cache[k] # 0 /\ cache'[k] = 0
                recorded == RowAfter(w).action = "close" /\ Row(w).action # "close"
                refused == \/ task[w].failedCall = "close"
                           \/ task[w].pc = "close" /\ task'[w].failedCall = "close"
            IN  /\ (deleted \/ recorded) =>
                    /\ log[rid].close > 0
                    /\ task[w].tid # 0 /\ tickets[task[w].tid] = "closed"
                    /\ task[w].failedCall # "close"
                /\ refused =>
                    /\ cache' = cache /\ viable' = viable
                    /\ RowAfter(w).action = Row(w).action]_vars

\* an UP alert whose close_ticket call failed is processed: its ticket is
\* open, the cache entry still points at it and no close is recorded
C40_Witness ==
    \E rid \in RequestIds :
        /\ UpAlert(rid) /\ rec[rid].status = "processed"
        /\ log[rid].close = 1 /\ rec[rid].action # "close"
        /\ rec[rid].ticket_id # 0 /\ tickets[rec[rid].ticket_id] = "open"
        /\ cache[CacheKey(req[rid].payload)] = rec[rid].ticket_id

==============================================================================
